---- MODULE Spec2Model ----
(***************************************************************************)
(* A model of dunamis: the metadata registry, the decorators that fill it, *)
(* the route registration engine that compiles it into an Express stack,   *)
(* and the handling of requests by that stack.                             *)
(*                                                                         *)
(* JavaScript strings that the code only compares or concatenates (class   *)
(* names, method names, property names) are TLA+ strings.  Route paths,    *)
(* which the code inspects character by character, are sequences of        *)
(* one-character strings.                                                  *)
(***************************************************************************)
EXTENDS Integers, Sequences, FiniteSets, TLC

\* Requests that may be in flight together under Spec.
MaxReq == 2

\* Largest index of a decorated parameter in the declared methods.
MaxIndex == 1

VARIABLES
  program,        \* the decorator applications of the host's class definitions
  declPc,         \* how many of them have been evaluated
  storage,        \* MetadataStorage: controllers, methods, parameters, middleware
  errorHandlers,  \* MetadataStorage: the error-handler slot of each class
  reflectMeta,    \* reflect-metadata: the classes carrying the CONTROLLER key
  phase,          \* "declare", "ready", "serving" or "aborted"
  stack,          \* the layers of the Express application, in order
  constructed,    \* per class, how many times its constructor has run
  bootError,      \* what the bootstrap call threw ("" when nothing)
  reqs,           \* the requests: inputs, position in the stack, effects
  util            \* the last call of a path utility: function, arguments, result

regVars == <<storage, errorHandlers, reflectMeta>>
bootVars == <<stack, constructed, bootError>>
vars == <<program, declPc, storage, errorHandlers, reflectMeta, phase, stack,
          constructed, bootError, reqs, util>>

-----------------------------------------------------------------------------
(* JavaScript values *)

Undefined == [t |-> "undefined"]
Null == [t |-> "null"]
Str(s) == [t |-> "string", v |-> s]
Num(s) == [t |-> "number", v |-> s]
Obj(f) == [t |-> "object", f |-> f]
ReqRef(r) == [t |-> "request", id |-> r]
ResRef(r) == [t |-> "response", id |-> r]
\* The outcome of an expression that throws a TypeError.
Thrown == [t |-> "thrown"]

EmptyObject == Obj([k \in {} |-> Undefined])

\* value[key] as JavaScript evaluates it.
GetProp(value, key) ==
  IF value.t = "thrown" THEN Thrown
  ELSE IF value.t \in {"undefined", "null"} THEN Thrown
  ELSE IF value.t = "object"
    THEN IF key \in DOMAIN value.f THEN value.f[key] ELSE Undefined
    ELSE Undefined

\* value?.[key]
GetPropOptional(value, key) ==
  IF value.t \in {"undefined", "null"} THEN Undefined ELSE GetProp(value, key)

\* String.prototype.toLowerCase on the header names of the model.
toLowerCase(s) ==
  CASE s = "X-Id" -> "x-id"
    [] s = "X-ID" -> "x-id"
    [] OTHER -> s

\* A JavaScript string is truthy unless it is empty.
Truthy(s) == s # ""

-----------------------------------------------------------------------------
(* Route paths *)

RECURSIVE StripTrailingSlashes(_)
StripTrailingSlashes(p) ==
  IF Len(p) > 0 /\ p[Len(p)] = "/"
    THEN StripTrailingSlashes(SubSeq(p, 1, Len(p) - 1))
    ELSE p

normalizePath(path) ==
  IF path = <<>> THEN <<"/">>
  ELSE LET normalizedPath == IF Head(path) = "/" THEN path ELSE <<"/">> \o path
       IN IF Len(normalizedPath) > 1
            THEN StripTrailingSlashes(normalizedPath)
            ELSE normalizedPath

joinPaths(basePath, subPath) ==
  LET normalizedBase == normalizePath(basePath)
      normalizedSub == normalizePath(subPath)
  IN IF normalizedSub = <<"/">> THEN normalizedBase
     ELSE IF normalizedBase = <<"/">> THEN normalizedSub
     ELSE normalizedBase \o normalizedSub

\* buildRoutePath(a, b): the reduce over [a, b] starting from "".
buildRoutePath(a, b) == joinPaths(joinPaths(<<>>, a), b)

\* No path utility has been called yet.
NoCall == [fn |-> "none", args |-> <<>>, result |-> <<>>]

-----------------------------------------------------------------------------
(* Classes of the host application *)

Classes == {"A", "A2", "B", "N", "A_item"}

\* The name property of each class: A2 is a second class that was declared
\* under the name A in another scope.
ClassName(c) == IF c = "A2" THEN "A" ELSE c

\* B extends A; the other classes extend nothing.
SuperClass(c) == IF c = "B" THEN "A" ELSE "none"

\* x instanceof c, for an instance x of class cls.
InstanceOf(cls, c) == cls = c \/ SuperClass(cls) = c

NoInstance == [cls |-> "none", n |-> 0]

-----------------------------------------------------------------------------
(* MetadataStorage *)

\* The bodies of the classes: the own function properties of each prototype,
\* in definition order.
OwnMethodNames(c) ==
  CASE c = "A" -> <<"item", "list">>
    [] c = "A2" -> <<"item">>
    [] c = "B" -> <<"boom">>
    [] OTHER -> <<"plain">>

EmptyStorage ==
  [controllers |-> [c \in {} |-> 0],
   methods |-> [k \in {} |-> <<>>],
   parameters |-> [k \in {} |-> <<>>],
   middleware |-> [k \in {} |-> <<>>]]

getControllerKey(target) == ClassName(target)

getMethodKey(target, methodName) == ClassName(target) \o "_" \o methodName

\* map.get(key) || []
GetOrEmpty(map, key) == IF key \in DOMAIN map THEN map[key] ELSE <<>>

\* addControllerMetadata keeping the record a class already has.
addControllerMetadataKeepsFirst(s, metadata) ==
  [s EXCEPT !.controllers = @ @@ (metadata.target :> metadata)]

addControllerMetadata(s, metadata) ==
  [s EXCEPT !.controllers = (metadata.target :> metadata) @@ @]

addMethodMetadata(s, metadata) ==
  LET key == getMethodKey(metadata.target, metadata.method)
  IN [s EXCEPT !.methods = (key :> Append(GetOrEmpty(@, key), metadata)) @@ @]

addParameterMetadata(s, metadata) ==
  LET key == getMethodKey(metadata.target, metadata.method)
  IN [s EXCEPT !.parameters = (key :> Append(GetOrEmpty(@, key), metadata)) @@ @]

\* A controller-scoped record has no method: the key is the class name alone.
addMiddlewareMetadata(s, metadata) ==
  LET key == IF Truthy(metadata.method)
               THEN getMethodKey(metadata.target, metadata.method)
               ELSE getControllerKey(metadata.target)
  IN [s EXCEPT !.middleware = (key :> Append(GetOrEmpty(@, key), metadata)) @@ @]

\* Reflect.hasMetadata: the class carries the controller mark, or a class it
\* extends does.
isController(refl, target) == target \in refl \/ SuperClass(target) \in refl

HasControllerMetadata(s, target) == target \in DOMAIN s.controllers

getControllerMiddleware(s, target) ==
  GetOrEmpty(s.middleware, getControllerKey(target))

getMethodMiddleware(s, target, methodName) ==
  GetOrEmpty(s.middleware, getMethodKey(target, methodName))

getMethodParameterMetadata(s, target, methodName) ==
  GetOrEmpty(s.parameters, getMethodKey(target, methodName))

\* References <<key, position>> to the method records of a class, in the order
\* getControllerMethodMetadata collects them.
RECURSIVE MethodRefsFrom(_, _, _)
MethodRefsFrom(s, target, names) ==
  IF names = <<>> THEN <<>>
  ELSE LET key == getMethodKey(target, Head(names))
           n == Len(GetOrEmpty(s.methods, key))
       IN [i \in 1..n |-> <<key, i>>] \o MethodRefsFrom(s, target, Tail(names))

getControllerMethodMetadata(s, target) ==
  MethodRefsFrom(s, target, OwnMethodNames(target))

\* The error-handler slot of a class: a single-slot map keyed by the class.
addErrorHandlerMetadata(eh, target, handler) == (target :> handler) @@ eh

getErrorHandlerMetadata(eh, target) ==
  IF target \in DOMAIN eh THEN eh[target] ELSE "none"

\* clear() leaving the middleware map as it is.
clearKeepsMiddleware(s) ==
  [s EXCEPT !.controllers = [c \in {} |-> 0],
            !.methods = [k \in {} |-> <<>>],
            !.parameters = [k \in {} |-> <<>>]]

\* clear(): the four maps are emptied.
clear(s) ==
  [s EXCEPT !.controllers = [c \in {} |-> 0],
            !.methods = [k \in {} |-> <<>>],
            !.parameters = [k \in {} |-> <<>>],
            !.middleware = [k \in {} |-> <<>>]]

\* clear() on the error-handler slots.
clearErrorHandlerMetadata(eh) == [c \in {} |-> "none"]

-----------------------------------------------------------------------------
(* Decorators *)

\* A middleware function written by the host application.
UserMiddleware(id) == [kind |-> "user", id |-> id]

RECURSIVE AddMiddlewareRecords(_, _, _, _)
AddMiddlewareRecords(s, target, methodName, middleware) ==
  IF middleware = <<>> THEN s
  ELSE AddMiddlewareRecords(
         addMiddlewareMetadata(s, [target |-> target, method |-> methodName,
                                   middleware |-> Head(middleware)]),
         target, methodName, Tail(middleware))

\* @JSONController(prefixOrOptions) applied to the class target.
JSONController(s, target, prefix, middleware) ==
  AddMiddlewareRecords(
    addControllerMetadata(s, [target |-> target, prefix |-> prefix,
                              middleware |-> middleware]),
    target, "", middleware)

\* @Get, @Post, ... applied to the method methodName of the class target.
createMethodDecorator(s, target, methodName, httpMethod, path, middleware) ==
  addMethodMetadata(s, [target |-> target, method |-> methodName,
                        httpMethod |-> httpMethod, path |-> path,
                        middleware |-> middleware])

\* @Body, @Query, @Param, @Headers, @Req, @Res applied to parameter
\* parameterIndex; name is "" when the decorator was given none.
createParameterDecorator(s, target, methodName, parameterIndex, type, name, options) ==
  LET paramName == IF Truthy(name) THEN name ELSE ToString(parameterIndex)
  IN addParameterMetadata(s, [target |-> target, method |-> methodName,
                              index |-> parameterIndex, type |-> type,
                              name |-> paramName, options |-> options])

\* @UseMiddleware(middleware) on a class (propertyKey "") or on a method.
UseMiddleware(s, target, propertyKey, middleware) ==
  AddMiddlewareRecords(s, target, propertyKey, middleware)

DefaultErrorStatus == 400

NoOptions == [k \in {} |-> 0]

\* The middleware createZodValidationMiddleware returns: the schema, the
\* request section and the merged options it closes over.
createZodValidationMiddleware(schema, type, options) ==
  [kind |-> "zod", schema |-> schema, type |-> type,
   errorStatus |-> IF "errorStatus" \in DOMAIN options
                     THEN options.errorStatus ELSE DefaultErrorStatus]

\* @ValidateBody, @ValidateQuery, @ValidateParams on a method.
createValidationDecorator(s, target, propertyKey, validationType, schema, options) ==
  addMiddlewareMetadata(s, [target |-> target, method |-> propertyKey,
      middleware |-> createZodValidationMiddleware(schema, validationType, options)])

\* @ErrorHandler(handler) recording the handler without looking at the class.
applyErrorHandlerUnchecked(eh, refl, target, handler) ==
  [threw |-> FALSE, eh |-> addErrorHandlerMetadata(eh, target, handler)]

\* @ErrorHandler(handler): throws unless the class is already a controller;
\* handler is "default" when the decorator was given none.
applyErrorHandler(eh, refl, target, handler) ==
  IF ~isController(refl, target)
    THEN [threw |-> TRUE, eh |-> eh]
    ELSE [threw |-> FALSE, eh |-> addErrorHandlerMetadata(eh, target, handler)]

-----------------------------------------------------------------------------
(* The schema library: parse(input) -> success(value) | failure(issues) *)

NumericStrings == {"5", "7"}

\* The fields a schema declares, each with its rule.
SchemaShape(schema) ==
  CASE schema = "N" -> [n |-> "coerceNumber"]
    [] schema = "Id" -> [id |-> "coerceNumber"]
    [] OTHER -> [page |-> "numberDefault"]

ParseField(rule, v) ==
  CASE rule = "coerceNumber" ->
         IF v.t = "number" THEN [ok |-> TRUE, value |-> v]
         ELSE IF v.t = "string" /\ v.v \in NumericStrings
           THEN [ok |-> TRUE, value |-> Num(v.v)]
           ELSE [ok |-> FALSE, value |-> Undefined]
    [] rule = "numberDefault" ->
         IF v.t = "undefined" THEN [ok |-> TRUE, value |-> Num("1")]
         ELSE IF v.t = "number" THEN [ok |-> TRUE, value |-> v]
         ELSE IF v.t = "string" /\ v.v \in NumericStrings
           THEN [ok |-> TRUE, value |-> Num(v.v)]
           ELSE [ok |-> FALSE, value |-> Undefined]
    [] OTHER -> [ok |-> FALSE, value |-> Undefined]

\* schema.parse(input): the declared fields parsed, undeclared keys dropped;
\* on failure the issues, keyed by field.
SchemaParse(schema, input) ==
  LET shape == SchemaShape(schema)
      field(k) == ParseField(shape[k], GetPropOptional(input, k))
      bad == {k \in DOMAIN shape : ~field(k).ok}
  IN IF input.t # "object"
       THEN [ok |-> FALSE, value |-> Undefined,
             issues |-> Obj([k \in {"_errors"} |-> Str("invalid")])]
     ELSE IF bad # {}
       THEN [ok |-> FALSE, value |-> Undefined,
             issues |-> Obj([k \in bad |-> Str("invalid")])]
     ELSE [ok |-> TRUE, value |-> Obj([k \in DOMAIN shape |-> field(k).value]),
           issues |-> Undefined]

-----------------------------------------------------------------------------
(* Errors *)

NoError == [class |-> "none", message |-> "", status |-> 0, data |-> Undefined]

\* new Error(message)
PlainError(message) ==
  [class |-> "Error", message |-> message, status |-> 0, data |-> Undefined]

DefaultHttpStatus == 500

\* new HttpError(message, status, data); status 0 stands for an omitted one.
HttpError(message, status, data) ==
  [class |-> "HttpError", message |-> message,
   status |-> IF status = 0 THEN DefaultHttpStatus ELSE status, data |-> data]

TypeError == [class |-> "TypeError", message |-> "Cannot read properties",
              status |-> 0, data |-> Undefined]

IsHttpError(err) == err.class = "HttpError"

-----------------------------------------------------------------------------
(* Requests *)

\* A slot that holds no request yet.
IdleReq ==
  [st |-> "idle", verb |-> "", path |-> <<>>, body |-> Undefined,
   query |-> Undefined, params |-> Undefined, headers |-> Undefined,
   cookies |-> Undefined, session |-> Undefined, validatedData |-> Undefined,
   controller |-> NoInstance, pos |-> 0, sub |-> 0, err |-> NoError,
   trace |-> <<>>, nexts |-> <<>>, responses |-> <<>>, headersSent |-> FALSE,
   invoked |-> 0, args |-> <<>>, raised |-> <<>>, returned |-> <<>>,
   handledBy |-> <<>>,
   method |-> "", payload |-> Undefined, parsed |-> FALSE]

\* res.status(status).json(body), by the named sender.
Send(q, by, status, body) ==
  [q EXCEPT !.responses = Append(@, [by |-> by, kind |-> "json",
                                     status |-> status, body |-> body]),
            !.headersSent = TRUE]

-----------------------------------------------------------------------------
(* Parameter extraction *)

\* createParameterFactory with a factory that throws for a custom parameter
\* without a callable factory and for a type outside the enumeration.
createParameterFactoryUnguarded(parameter, q, r) ==
  LET type == parameter.type
      name == parameter.name
      options == parameter.options
      whole == ~Truthy(name) \/ name = "0"
      validated(section) == GetPropOptional(q.validatedData, section)
  IN CASE type = "request" -> ReqRef(r)
       [] type = "response" -> ResRef(r)
       [] type = "body" ->
            IF validated("body") # Undefined
              THEN IF whole THEN validated("body")
                            ELSE GetProp(validated("body"), name)
              ELSE IF whole THEN q.body ELSE GetPropOptional(q.body, name)
       [] type = "query" ->
            IF validated("query") # Undefined
              THEN IF whole THEN validated("query")
                            ELSE GetProp(validated("query"), name)
              ELSE IF whole THEN q.query ELSE GetProp(q.query, name)
       [] type = "param" ->
            IF validated("params") # Undefined
              THEN IF Truthy(name) THEN GetProp(validated("params"), name)
                                   ELSE validated("params")
              ELSE IF Truthy(name) THEN GetProp(q.params, name) ELSE q.params
       [] type = "headers" ->
            IF Truthy(name) THEN GetProp(q.headers, toLowerCase(name))
                            ELSE q.headers
       [] type = "cookies" ->
            IF Truthy(name) THEN GetPropOptional(q.cookies, name) ELSE q.cookies
       [] type = "session" -> q.session
       [] type = "custom" ->
            IF "factory" \in DOMAIN options /\ options.factory.t = "function"
              THEN Str("custom:" \o options.factory.id)
              ELSE Thrown
       [] OTHER -> Thrown

\* The function createParameterFactory returns for a ParameterMetadata,
\* applied to request q held in slot r.
createParameterFactory(parameter, q, r) ==
  LET type == parameter.type
      name == parameter.name
      options == parameter.options
      whole == ~Truthy(name) \/ name = "0"
      validated(section) == GetPropOptional(q.validatedData, section)
  IN CASE type = "request" -> ReqRef(r)
       [] type = "response" -> ResRef(r)
       [] type = "body" ->
            IF validated("body") # Undefined
              THEN IF whole THEN validated("body")
                            ELSE GetProp(validated("body"), name)
              ELSE IF whole THEN q.body ELSE GetPropOptional(q.body, name)
       [] type = "query" ->
            IF validated("query") # Undefined
              THEN IF whole THEN validated("query")
                            ELSE GetProp(validated("query"), name)
              ELSE IF whole THEN q.query ELSE GetProp(q.query, name)
       [] type = "param" ->
            IF validated("params") # Undefined
              THEN IF Truthy(name) THEN GetProp(validated("params"), name)
                                   ELSE validated("params")
              ELSE IF Truthy(name) THEN GetProp(q.params, name) ELSE q.params
       [] type = "headers" ->
            IF Truthy(name) THEN GetProp(q.headers, toLowerCase(name))
                            ELSE q.headers
       [] type = "cookies" ->
            IF Truthy(name) THEN GetPropOptional(q.cookies, name) ELSE q.cookies
       [] type = "session" -> q.session
       [] type = "custom" ->
            IF "factory" \in DOMAIN options /\ options.factory.t = "function"
              THEN Str("custom:" \o options.factory.id)
              ELSE Undefined
       [] OTHER -> Undefined

\* parameters.sort((a, b) => a.index - b.index): a stable sort.
RECURSIVE InsertByIndex(_, _)
InsertByIndex(sorted, p) ==
  IF sorted = <<>> THEN <<p>>
  ELSE IF sorted[Len(sorted)].index <= p.index THEN Append(sorted, p)
  ELSE Append(InsertByIndex(SubSeq(sorted, 1, Len(sorted) - 1), p),
              sorted[Len(sorted)])

RECURSIVE SortByIndex(_)
SortByIndex(parameters) ==
  IF parameters = <<>> THEN <<>>
  ELSE InsertByIndex(SortByIndex(SubSeq(parameters, 1, Len(parameters) - 1)),
                     parameters[Len(parameters)])

NoFactory == [type |-> "none"]

\* One factory per declared parameter, in index order, with no place kept
\* for the positions that have none.
createParameterFactoriesCompact(parameters) == SortByIndex(parameters)

\* createParameterFactories keeping, for an index several parameters share,
\* the first of them.
createParameterFactoriesFirstWins(parameters) ==
  LET indices == {parameters[i].index : i \in 1..Len(parameters)}
      maxIndex == IF parameters = <<>> THEN -1
                  ELSE CHOOSE m \in indices : \A k \in indices : k <= m
      first(i) == CHOOSE j \in 1..Len(parameters) :
                    /\ parameters[j].index = i
                    /\ \A k \in 1..Len(parameters) :
                         parameters[k].index = i => j <= k
  IN [i \in 1..(maxIndex + 1) |->
        IF (i - 1) \in indices THEN parameters[first(i - 1)] ELSE NoFactory]

\* Position i + 1 holds the parameter declared with index i (the last one in
\* the list when several share it), NoFactory where none is declared.
createParameterFactories(parameters) ==
  LET indices == {parameters[i].index : i \in 1..Len(parameters)}
      maxIndex == IF parameters = <<>> THEN -1
                  ELSE CHOOSE m \in indices : \A k \in indices : k <= m
      last(i) == CHOOSE j \in 1..Len(parameters) :
                   /\ parameters[j].index = i
                   /\ \A k \in 1..Len(parameters) :
                        parameters[k].index = i => k <= j
  IN [i \in 1..(maxIndex + 1) |->
        IF (i - 1) \in indices THEN parameters[last(i - 1)] ELSE NoFactory]

\* The factories applied to the request and response of the first request
\* the process served instead of the current ones.
ExtractArgsOfFirst(paramFactories, q, r) ==
  [i \in 1..Len(paramFactories) |->
     IF paramFactories[i] = NoFactory THEN Undefined
     ELSE createParameterFactory(paramFactories[i], q, 1)]

\* paramFactories.map(factory => factory ? factory(req, res) : undefined)
ExtractArgs(paramFactories, q, r) ==
  [i \in 1..Len(paramFactories) |->
     IF paramFactories[i] = NoFactory THEN Undefined
     ELSE createParameterFactory(paramFactories[i], q, r)]

-----------------------------------------------------------------------------
(* Validation middleware *)

\* The validation middleware with the configured errorStatus ignored.
ValidationMiddlewareFixedStatus(mw, q) ==
  LET type == mw.type
      result == SchemaParse(mw.schema, q[type])
      vd == IF q.validatedData = Undefined THEN EmptyObject ELSE q.validatedData
  IN IF result.ok
       THEN [req |-> [q EXCEPT ![type] = result.value,
                               !.validatedData =
                                  Obj((type :> result.value) @@ vd.f)],
             err |-> NoError]
       ELSE [req |-> q,
             err |-> HttpError("Validation failed for " \o type, DefaultErrorStatus,
                               Obj([k \in {"errors"} |-> result.issues]))]

\* The validation middleware replacing validatedData instead of adding to it.
ValidationMiddlewareReplaces(mw, q) ==
  LET type == mw.type
      result == SchemaParse(mw.schema, q[type])
  IN IF result.ok
       THEN [req |-> [q EXCEPT ![type] = result.value,
                               !.validatedData =
                                  Obj([k \in {type} |-> result.value])],
             err |-> NoError]
       ELSE [req |-> q,
             err |-> HttpError("Validation failed for " \o type, mw.errorStatus,
                               Obj([k \in {"errors"} |-> result.issues]))]

\* The middleware of createZodValidationMiddleware run on request q: the
\* request it leaves and the error it passes to next (NoError for next()).
ValidationMiddleware(mw, q) ==
  LET type == mw.type
      result == SchemaParse(mw.schema, q[type])
      vd == IF q.validatedData = Undefined THEN EmptyObject ELSE q.validatedData
  IN IF result.ok
       THEN [req |-> [q EXCEPT ![type] = result.value,
                               !.validatedData =
                                  Obj((type :> result.value) @@ vd.f)],
             err |-> NoError]
       ELSE [req |-> q,
             err |-> HttpError("Validation failed for " \o type, mw.errorStatus,
                               Obj([k \in {"errors"} |-> result.issues]))]

-----------------------------------------------------------------------------
(* Error handlers *)

\* { message: err.message || "Internal Server Error",
\*   status: err instanceof HttpError ? err.status : 500 }
ErrorResponse(err) ==
  [k \in {"message", "status"} |->
     IF k = "message"
       THEN Str(IF Truthy(err.message) THEN err.message
                ELSE "Internal Server Error")
       ELSE Num(ToString(IF IsHttpError(err) THEN err.status ELSE 500))]

\* The global errorHandler: the error's data is merged into the response.
errorHandler(err, q) ==
  LET response == IF IsHttpError(err) /\ err.data.t = "object"
                    THEN err.data.f @@ ErrorResponse(err)
                    ELSE ErrorResponse(err)
  IN Send(q, "errorHandler", response["status"], Obj(response))

\* The default controller-level handler: the error's data goes under "data".
defaultControllerErrorHandler(err, q) ==
  LET response == IF IsHttpError(err) /\ err.data.t = "object"
                    THEN ("data" :> err.data) @@ ErrorResponse(err)
                    ELSE ErrorResponse(err)
  IN Send(q, "defaultControllerErrorHandler", response["status"], Obj(response))

\* A handler given to @ErrorHandler by the host: it answers in its own shape,
\* or throws.
CustomErrorHandler(err, q) ==
  Send(q, "customErrorHandler", Num("418"),
       Obj([k \in {"customMessage", "originalError"} |->
              IF k = "customMessage" THEN Str("I am a teapot")
              ELSE Str(err.message)]))

\* What res.json throws once a response has gone out.
HeadersSentError ==
  [class |-> "Error", message |-> "ERR_HTTP_HEADERS_SENT", status |-> 0,
   data |-> Undefined]

HandlerThrew == PlainError("error handler failed")

\* createControllerErrorHandlingMiddleware handing every error to the handler,
\* whichever controller the request reached.
createControllerErrorHandlingMiddlewareAnyRequest(controller, handler, err, q, behaviour) ==
  LET handled == [q EXCEPT !.handledBy = Append(@, controller)]
  IN IF handler # "default" /\ behaviour = "throw"
       THEN [req |-> handled, err |-> HandlerThrew]
     ELSE IF q.headersSent
       THEN [req |-> handled, err |-> HeadersSentError]
     ELSE [req |-> IF handler = "default"
                     THEN defaultControllerErrorHandler(err, handled)
                     ELSE CustomErrorHandler(err, handled),
           err |-> NoError]

\* createControllerErrorHandlingMiddleware without its catch: what the handler
\* throws goes nowhere.
createControllerErrorHandlingMiddlewareSwallows(controller, handler, err, q, behaviour) ==
  LET handled == [q EXCEPT !.handledBy = Append(@, controller)]
  IN IF ~InstanceOf(q.controller.cls, controller)
       THEN [req |-> q, err |-> err]
     ELSE IF (handler # "default" /\ behaviour = "throw") \/ q.headersSent
       THEN [req |-> handled, err |-> NoError]
     ELSE [req |-> IF handler = "default"
                     THEN defaultControllerErrorHandler(err, handled)
                     ELSE CustomErrorHandler(err, handled),
           err |-> NoError]

\* The middleware createControllerErrorHandlingMiddleware(controller, handler)
\* returns, run on request q with error err.  behaviour is what a host-written
\* handler does ("respond" or "throw"); the default handler responds, and
\* res.json throws when a response has already gone out.  The result is the
\* request it leaves and the error it passes to next (NoError when it passes
\* none).
createControllerErrorHandlingMiddleware(controller, handler, err, q, behaviour) ==
  LET handled == [q EXCEPT !.handledBy = Append(@, controller)]
  IN IF ~InstanceOf(q.controller.cls, controller)
       THEN [req |-> q, err |-> err]
     ELSE IF handler # "default" /\ behaviour = "throw"
       THEN [req |-> handled, err |-> HandlerThrew]
     ELSE IF q.headersSent
       THEN [req |-> handled, err |-> HeadersSentError]
     ELSE [req |-> IF handler = "default"
                     THEN defaultControllerErrorHandler(err, handled)
                     ELSE CustomErrorHandler(err, handled),
           err |-> NoError]

-----------------------------------------------------------------------------
(* Route registration *)

\* convertMiddlewareToHandlers
convertMiddlewareToHandlers(middleware) ==
  [j \in 1..Len(middleware) |-> [kind |-> "mw", mw |-> middleware[j]]]

\* registerMethodRoute with the method's middleware ahead of the controller's.
registerMethodRouteMethodFirst(s, ref, instance, basePath, controllerMiddleware) ==
  LET key == ref[1]
      methodMetadata == s.methods[key][ref[2]]
      additionalMiddleware ==
        getMethodMiddleware(s, methodMetadata.target, methodMetadata.method)
      methodMiddleware ==
        methodMetadata.middleware \o
        [j \in 1..Len(additionalMiddleware) |-> additionalMiddleware[j].middleware]
      parameters ==
        SortByIndex(getMethodParameterMetadata(s, methodMetadata.target,
                                               methodMetadata.method))
  IN [s |-> s,
      layer |-> [kind |-> "route", verb |-> methodMetadata.httpMethod,
                 path |-> buildRoutePath(basePath, methodMetadata.path),
                 chain |-> convertMiddlewareToHandlers(methodMiddleware) \o
                           controllerMiddleware \o
                           <<[kind |-> "handler", target |-> methodMetadata.target,
                              method |-> methodMetadata.method,
                              instance |-> instance,
                              paramFactories |->
                                createParameterFactories(parameters)]>>]]

\* registerMethodRoute for the method record at ref = <<key, position>>: the
\* storage it leaves and the route layer it installs.
registerMethodRoute(s, ref, instance, basePath, controllerMiddleware) ==
  LET key == ref[1]
      methodMetadata == s.methods[key][ref[2]]
      routePath == buildRoutePath(basePath, methodMetadata.path)
      additionalMiddleware ==
        getMethodMiddleware(s, methodMetadata.target, methodMetadata.method)
      methodMiddleware ==
        methodMetadata.middleware \o
        [j \in 1..Len(additionalMiddleware) |-> additionalMiddleware[j].middleware]
      s1 == [s EXCEPT !.methods[key][ref[2]].middleware = methodMiddleware]
      pkey == getMethodKey(methodMetadata.target, methodMetadata.method)
      parameters ==
        SortByIndex(getMethodParameterMetadata(s1, methodMetadata.target,
                                               methodMetadata.method))
      s2 == IF pkey \in DOMAIN s1.parameters
              THEN [s1 EXCEPT !.parameters[pkey] = parameters] ELSE s1
      handler == [kind |-> "handler", target |-> methodMetadata.target,
                  method |-> methodMetadata.method, instance |-> instance,
                  paramFactories |-> createParameterFactories(parameters)]
  IN [s |-> s2,
      layer |-> [kind |-> "route", verb |-> methodMetadata.httpMethod,
                 path |-> routePath,
                 chain |-> controllerMiddleware \o
                           convertMiddlewareToHandlers(methodMiddleware) \o
                           <<handler>>]]

RECURSIVE RegisterMethodRoutes(_, _, _, _, _, _)
RegisterMethodRoutes(s, router, refs, instance, basePath, controllerMiddleware) ==
  IF refs = <<>> THEN [s |-> s, router |-> router]
  ELSE LET one == registerMethodRoute(s, Head(refs), instance, basePath,
                                      controllerMiddleware)
       IN RegisterMethodRoutes(one.s, Append(router, one.layer), Tail(refs),
                               instance, basePath, controllerMiddleware)

\* registerControllerRoutes with the separately registered middleware ahead of
\* the controller record's own list.
registerControllerRoutesRecordsFirst(s, router, target, instance, globalPrefix) ==
  LET controllerMetadata == s.controllers[target]
      methodMetadata == getControllerMethodMetadata(s, target)
      basePath == IF globalPrefix # <<>>
                    THEN buildRoutePath(globalPrefix, controllerMetadata.prefix)
                    ELSE controllerMetadata.prefix
      additionalMiddleware == getControllerMiddleware(s, target)
      controllerMiddleware ==
        [j \in 1..Len(additionalMiddleware) |-> additionalMiddleware[j].middleware]
        \o controllerMetadata.middleware
      s1 == [s EXCEPT !.controllers[target].middleware = controllerMiddleware]
  IN RegisterMethodRoutes(s1, router, methodMetadata, instance, basePath,
                          convertMiddlewareToHandlers(controllerMiddleware))

\* registerControllerRoutes: the storage and the router it leaves.
registerControllerRoutes(s, router, target, instance, globalPrefix) ==
  LET controllerMetadata == s.controllers[target]
      methodMetadata == getControllerMethodMetadata(s, target)
      basePath == IF globalPrefix # <<>>
                    THEN buildRoutePath(globalPrefix, controllerMetadata.prefix)
                    ELSE controllerMetadata.prefix
      additionalMiddleware == getControllerMiddleware(s, target)
      controllerMiddleware ==
        controllerMetadata.middleware \o
        [j \in 1..Len(additionalMiddleware) |-> additionalMiddleware[j].middleware]
      s1 == [s EXCEPT !.controllers[target].middleware = controllerMiddleware]
  IN RegisterMethodRoutes(s1, router, methodMetadata, instance, basePath,
                          convertMiddlewareToHandlers(controllerMiddleware))

NotAController(controller) ==
  "Class \"" \o ClassName(controller) \o
  "\" is not a controller. Did you forget to add @JSONController()?"

\* registerController constructing the instance before it looks for the
\* controller record.
registerControllerConstructsFirst(b, eh, controller, globalPrefix) ==
  LET instance == [cls |-> controller, n |-> b.constructed[controller] + 1]
      made == [b EXCEPT !.constructed[controller] = @ + 1]
  IN IF ~HasControllerMetadata(b.s, controller)
       THEN [made EXCEPT !.error = NotAController(controller)]
     ELSE LET routes == registerControllerRoutes(b.s, b.router, controller,
                                                 instance, globalPrefix)
          IN [made EXCEPT !.s = routes.s, !.router = routes.router,
                          !.instances = (controller :> instance) @@ @]

\* registerController constructing an instance at every call.
registerControllerAlwaysConstructs(b, eh, controller, globalPrefix) ==
  IF ~HasControllerMetadata(b.s, controller)
    THEN [b EXCEPT !.error = NotAController(controller)]
  ELSE
    LET instance == [cls |-> controller, n |-> b.constructed[controller] + 1]
        routes == registerControllerRoutes(b.s, b.router, controller, instance,
                                           globalPrefix)
    IN [b EXCEPT !.s = routes.s, !.router = routes.router,
                 !.constructed[controller] = @ + 1,
                 !.instances = (controller :> instance) @@ @]

\* registerController installing the error-handling middleware ahead of the
\* controller's routes.
registerControllerHandlerFirst(b, eh, controller, globalPrefix) ==
  IF ~HasControllerMetadata(b.s, controller)
    THEN [b EXCEPT !.error = NotAController(controller)]
  ELSE
    LET reuse == b.supplied /\ controller \in DOMAIN b.instances
        instance == IF reuse THEN b.instances[controller]
                    ELSE [cls |-> controller, n |-> b.constructed[controller] + 1]
        errorHandlerMetadata == getErrorHandlerMetadata(eh, controller)
        router == IF errorHandlerMetadata # "none"
                    THEN Append(b.router,
                                [kind |-> "errmw", controller |-> controller,
                                 handler |-> errorHandlerMetadata])
                    ELSE b.router
        routes == registerControllerRoutes(b.s, router, controller, instance,
                                           globalPrefix)
    IN [s |-> routes.s,
        router |-> routes.router,
        constructed |-> IF reuse THEN b.constructed
                        ELSE [b.constructed EXCEPT ![controller] = @ + 1],
        instances |-> IF b.supplied THEN (controller :> instance) @@ b.instances
                      ELSE b.instances,
        supplied |-> b.supplied,
        error |-> ""]

\* registerController on the registration state b = [s, router, constructed,
\* instances, supplied, error]; supplied tells whether the caller passed an
\* instances map; eh is the error-handler slots.
registerController(b, eh, controller, globalPrefix) ==
  IF ~HasControllerMetadata(b.s, controller)
    THEN [b EXCEPT !.error = NotAController(controller)]
  ELSE
    LET reuse == b.supplied /\ controller \in DOMAIN b.instances
        instance == IF reuse THEN b.instances[controller]
                    ELSE [cls |-> controller, n |-> b.constructed[controller] + 1]
        routes == registerControllerRoutes(b.s, b.router, controller, instance,
                                           globalPrefix)
        errorHandlerMetadata == getErrorHandlerMetadata(eh, controller)
    IN [s |-> routes.s,
        router |-> IF errorHandlerMetadata # "none"
                     THEN Append(routes.router,
                                 [kind |-> "errmw", controller |-> controller,
                                  handler |-> errorHandlerMetadata])
                     ELSE routes.router,
        constructed |-> IF reuse THEN b.constructed
                        ELSE [b.constructed EXCEPT ![controller] = @ + 1],
        instances |-> IF b.supplied THEN (controller :> instance) @@ b.instances
                      ELSE b.instances,
        supplied |-> b.supplied,
        error |-> ""]

RECURSIVE RegisterControllers(_, _, _, _)
RegisterControllers(b, eh, controllers, globalPrefix) ==
  IF controllers = <<>> \/ b.error # "" THEN b
  ELSE RegisterControllers(registerController(b, eh, Head(controllers), globalPrefix),
                           eh, Tail(controllers), globalPrefix)

\* createRouter(options): express.json(), the global middleware, then every
\* controller in list order.
createRouter(s, eh, cons, options) ==
  LET router == <<[kind |-> "json"]>> \o
                [j \in 1..Len(options.middleware) |->
                   [kind |-> "use", mw |-> options.middleware[j]]]
  IN RegisterControllers([s |-> s, router |-> router, constructed |-> cons,
                          instances |-> [c \in {} |-> NoInstance],
                          supplied |-> TRUE, error |-> ""],
                         eh, options.controllers, options.routePrefix)

-----------------------------------------------------------------------------
(* Application bootstrap *)

\* createExpressApp(options): the body parsers, the add-ons that are enabled
\* and installed, the global middleware, then the router.
createExpressApp(s, eh, cons, options) ==
  LET parsers == IF options.bodyParser
                   THEN <<[kind |-> "json"], [kind |-> "urlencoded"]>> ELSE <<>>
      addon(name) == IF options[name] /\ name \in options.installed
                       THEN <<[kind |-> "addon", name |-> name]>> ELSE <<>>
      middleware == addon("cors") \o addon("helmet") \o addon("logger") \o
                    [j \in 1..Len(options.globalMiddleware) |->
                       [kind |-> "use", mw |-> options.globalMiddleware[j]]]
      b == createRouter(s, eh, cons,
                        [controllers |-> options.controllers,
                         routePrefix |-> options.routePrefix,
                         middleware |-> <<>>])
  IN [b EXCEPT !.router = parsers \o middleware \o @]

\* useErrorHandler(app): the not-found handler, then the global error handler.
useErrorHandler(app) ==
  app \o <<[kind |-> "notFound"], [kind |-> "errorHandler"]>>

-----------------------------------------------------------------------------
(* Express: which layer a request is handed to next *)

IsErrorLayer(layer) == layer.kind \in {"errmw", "errorHandler"}

Matches(layer, q, errMode) ==
  IF errMode THEN IsErrorLayer(layer)
  ELSE IF layer.kind = "route" THEN layer.verb = q.verb /\ layer.path = q.path
  ELSE ~IsErrorLayer(layer)

\* The first layer after position from that takes the request; one past the
\* end of the stack when none does (Express' final handler).
NextPos(stk, from, q, errMode) ==
  LET later == {i \in (from + 1)..Len(stk) : Matches(stk[i], q, errMode)}
  IN IF later = {} THEN Len(stk) + 1
     ELSE CHOOSE i \in later : \A j \in later : i <= j

\* What the layer at hand does when the request is at (pos, sub).
Current(stk, q) ==
  IF q.pos > Len(stk) THEN [kind |-> "final"]
  ELSE IF stk[q.pos].kind = "route" THEN stk[q.pos].chain[q.sub]
  ELSE stk[q.pos]

\* next(err) called by the layer at hand (next() when err is NoError).
CallNext(stk, q, err) ==
  IF err = NoError /\ stk[q.pos].kind = "route" /\ q.sub < Len(stk[q.pos].chain)
    THEN [q EXCEPT !.sub = @ + 1]
  ELSE LET to == NextPos(stk, q.pos, q, err # NoError)
       IN [q EXCEPT !.pos = to,
                    !.sub = IF to <= Len(stk) /\ stk[to].kind = "route"
                              THEN 1 ELSE 0,
                    !.err = err]

\* A request entering the application.
Enter(stk, q) ==
  LET to == NextPos(stk, 0, q, FALSE)
  IN [q EXCEPT !.st = "active", !.pos = to,
               !.sub = IF to <= Len(stk) /\ stk[to].kind = "route" THEN 1 ELSE 0]

-----------------------------------------------------------------------------
(* The route handler of createMethodHandler *)

MethodValue == Str("result")

\* next(error) called by the route handler.
HandlerNext(stk, q, error) ==
  CallNext(stk, [q EXCEPT !.nexts = Append(@, error), !.st = "active"], error)

\* MethodSettled with a rejection left unhandled.
MethodSettledDropsRejection(stk, q, result, error) ==
  IF error # NoError THEN [q EXCEPT !.st = "done"]
  ELSE IF q.headersSent THEN [q EXCEPT !.st = "done"]
  ELSE [Send(q, "handler", Num("200"), result) EXCEPT !.st = "done"]

\* MethodSettled calling res.json whatever the method returned.
MethodSettledAlwaysSends(stk, q, result, error) ==
  IF error # NoError THEN HandlerNext(stk, q, error)
  ELSE IF q.headersSent THEN HandlerNext(stk, q, HeadersSentError)
  ELSE [Send(q, "handler", Num("200"), result) EXCEPT !.st = "done"]

\* The .then / .catch continuation: result is the value the method's promise
\* resolved to, error the reason it rejected with (NoError if it resolved).
MethodSettled(stk, q, result, error) ==
  IF error # NoError THEN HandlerNext(stk, q, error)
  ELSE IF result = Undefined /\ q.headersSent THEN [q EXCEPT !.st = "done"]
  ELSE IF q.headersSent THEN HandlerNext(stk, q, HeadersSentError)
  ELSE [Send(q, "handler", Num("200"), result) EXCEPT !.st = "done"]

\* createMethodHandler serialising what the method returned at once, a pending
\* promise included.
createMethodHandlerAnswersPending(stk, handler, q, r, outcome, sends, error) ==
  LET q1 == [q EXCEPT !.controller = handler.instance, !.method = handler.method]
      args == ExtractArgs(handler.paramFactories, q1, r)
      called == [q1 EXCEPT !.invoked = @ + 1, !.args = args,
                           !.raised = IF outcome = "throw" THEN Append(@, error)
                                      ELSE @]
      q2 == IF sends THEN Send(called, "method", Num("200"), Str("own"))
            ELSE called
  IN IF \E i \in 1..Len(args) : args[i] = Thrown
       THEN HandlerNext(stk, q1, TypeError)
     ELSE IF outcome = "throw" THEN HandlerNext(stk, q2, error)
     ELSE IF outcome = "promise"
       THEN [Send(q2, "handler", Num("200"), EmptyObject) EXCEPT !.st = "awaiting"]
     ELSE LET result == IF outcome = "return" THEN MethodValue ELSE Undefined
          IN MethodSettled(stk, [q2 EXCEPT !.returned = Append(@, result)],
                           result, NoError)

\* The handler run on request q in slot r.  outcome is what the controller
\* method does when called: "return", "returnUndefined", "throw" or "promise";
\* sends tells whether it answers through the response object itself; error
\* is what it throws.
createMethodHandler(stk, handler, q, r, outcome, sends, error) ==
  LET q1 == [q EXCEPT !.controller = handler.instance, !.method = handler.method]
      args == ExtractArgs(handler.paramFactories, q1, r)
      called == [q1 EXCEPT !.invoked = @ + 1, !.args = args,
                           !.raised = IF outcome = "throw" THEN Append(@, error)
                                      ELSE @]
      q2 == IF sends THEN Send(called, "method", Num("200"), Str("own"))
            ELSE called
  IN IF \E i \in 1..Len(args) : args[i] = Thrown
       THEN HandlerNext(stk, q1, TypeError)
     ELSE IF outcome = "throw" THEN HandlerNext(stk, q2, error)
     ELSE IF outcome = "promise" THEN [q2 EXCEPT !.st = "awaiting"]
     ELSE LET result == IF outcome = "return" THEN MethodValue ELSE Undefined
          IN MethodSettled(stk, [q2 EXCEPT !.returned = Append(@, result)],
                           result, NoError)

-----------------------------------------------------------------------------
(* Declaration phase: the decorators of the host's classes, evaluated in the
   order the class definitions apply them *)

Instr == program.decl[declPc + 1]

Declaring(op) ==
  /\ phase = "declare"
  /\ declPc < Len(program.decl)
  /\ Instr.op = op

Declared == phase = "declare" /\ declPc = Len(program.decl)

JSONControllerDecorator ==
  /\ Declaring("JSONController")
  /\ storage' = JSONController(storage, Instr.target, Instr.prefix, Instr.middleware)
  /\ reflectMeta' = reflectMeta \cup {Instr.target}
  /\ declPc' = declPc + 1
  /\ UNCHANGED <<program, errorHandlers, phase, stack, constructed, bootError, reqs,
                 util>>

MethodDecorator ==
  /\ Declaring("Method")
  /\ storage' = createMethodDecorator(storage, Instr.target, Instr.method,
                                      Instr.httpMethod, Instr.path, Instr.middleware)
  /\ declPc' = declPc + 1
  /\ UNCHANGED <<program, errorHandlers, reflectMeta, phase, stack, constructed,
                 bootError, reqs,
                 util>>

ParameterDecorator ==
  /\ Declaring("Param")
  /\ storage' = createParameterDecorator(storage, Instr.target, Instr.method,
                                         Instr.index, Instr.type, Instr.name,
                                         NoOptions)
  /\ declPc' = declPc + 1
  /\ UNCHANGED <<program, errorHandlers, reflectMeta, phase, stack, constructed,
                 bootError, reqs,
                 util>>

UseMiddlewareDecorator ==
  /\ Declaring("UseMiddleware")
  /\ storage' = UseMiddleware(storage, Instr.target, Instr.method, Instr.middleware)
  /\ declPc' = declPc + 1
  /\ UNCHANGED <<program, errorHandlers, reflectMeta, phase, stack, constructed,
                 bootError, reqs,
                 util>>

ValidationDecorator ==
  /\ Declaring("Validate")
  /\ storage' = createValidationDecorator(storage, Instr.target, Instr.method,
                                          Instr.type, Instr.schema, Instr.options)
  /\ declPc' = declPc + 1
  /\ UNCHANGED <<program, errorHandlers, reflectMeta, phase, stack, constructed,
                 bootError, reqs,
                 util>>

\* A throw at decoration time aborts the load of the host's module.
ErrorHandlerDecorator ==
  /\ Declaring("ErrorHandler")
  /\ LET applied == applyErrorHandler(errorHandlers, reflectMeta, Instr.target,
                                      Instr.handler)
     IN /\ errorHandlers' = applied.eh
        /\ phase' = IF applied.threw THEN "aborted" ELSE phase
        /\ bootError' = IF applied.threw THEN "not a controller" ELSE bootError
  /\ declPc' = declPc + 1
  /\ UNCHANGED <<program, storage, reflectMeta, stack, constructed, reqs,
                 util>>

\* The host calls addControllerMetadata itself, without the decorator.
AddControllerMetadataCall ==
  /\ Declaring("addControllerMetadata")
  /\ storage' = addControllerMetadata(storage,
                   [target |-> Instr.target, prefix |-> Instr.prefix,
                    middleware |-> <<>>])
  /\ declPc' = declPc + 1
  /\ UNCHANGED <<program, errorHandlers, reflectMeta, phase, stack, constructed,
                 bootError, reqs, util>>

\* A parameter decorator of the host's own making calls
\* addParameterMetadata with the record it has built.
AddParameterMetadataCall ==
  /\ Declaring("addParameterMetadata")
  /\ storage' = addParameterMetadata(storage, Instr.record)
  /\ declPc' = declPc + 1
  /\ UNCHANGED <<program, errorHandlers, reflectMeta, phase, stack, constructed,
                 bootError, reqs, util>>

\* The host calls clear() between two scenarios.
ClearCall ==
  /\ Declaring("clear")
  /\ storage' = clear(storage)
  /\ errorHandlers' = clearErrorHandlerMetadata(errorHandlers)
  /\ declPc' = declPc + 1
  /\ UNCHANGED <<program, reflectMeta, phase, stack, constructed, bootError,
                 reqs, util>>

-----------------------------------------------------------------------------
(* Bootstrap *)

Install(b) ==
  /\ storage' = b.s
  /\ stack' = b.router
  /\ constructed' = b.constructed
  /\ bootError' = b.error
  /\ phase' = IF b.error = "" THEN "serving" ELSE "aborted"
  /\ UNCHANGED <<program, declPc, errorHandlers, reflectMeta, reqs,
                 util>>

\* The host builds a router with createRouter and mounts it on its own
\* application.
CreateRouter(options) ==
  /\ Declared
  /\ Install(createRouter(storage, errorHandlers, constructed, options))

\* The host calls registerController itself, once for each class of
\* controllers, on one router and with one instances map or with none.
RegisterControllerCall(controllers, supplied) ==
  /\ Declared
  /\ Install(RegisterControllers(
               [s |-> storage, router |-> <<>>, constructed |-> constructed,
                instances |-> [c \in {} |-> NoInstance], supplied |-> supplied,
                error |-> ""],
               errorHandlers, controllers, <<>>))

\* The host builds its application with createExpressApp.
CreateExpressApp(options) ==
  /\ Declared
  /\ Install(createExpressApp(storage, errorHandlers, constructed, options))

\* The host calls useErrorHandler(app) on the application it has built.
UseErrorHandler ==
  /\ phase = "serving"
  /\ \A r \in DOMAIN reqs : reqs[r].st = "idle"
  /\ \A i \in 1..Len(stack) : stack[i].kind # "errorHandler"
  /\ stack' = useErrorHandler(stack)
  /\ UNCHANGED <<program, declPc, storage, errorHandlers, reflectMeta, phase,
                 constructed, bootError, reqs,
                 util>>

-----------------------------------------------------------------------------
(* Request handling *)

AtLayer(r, kinds) ==
  /\ phase = "serving"
  /\ reqs[r].st = "active"
  /\ Current(stack, reqs[r]).kind \in kinds

Serve(r, q) ==
  /\ reqs' = [reqs EXCEPT ![r] = q]
  /\ UNCHANGED <<program, declPc, storage, errorHandlers, reflectMeta, phase,
                 stack, constructed, bootError,
                 util>>

Unrouted == [verb |-> "get", path |-> <<"/", "z">>]

\* The verb and path of every installed route.
RouteTargets ==
  {[verb |-> stack[i].verb, path |-> stack[i].path] :
     i \in {j \in 1..Len(stack) : stack[j].kind = "route"}}

\* Whether a route path has a parameter segment.
HasParam(path) == \E i \in 1..Len(path) : path[i] = ":"

\* A request arrives for an installed route or for no route; input gives its
\* payload, query, headers and the value of the path's parameter.
Arrive(r, input) ==
  /\ phase = "serving"
  /\ reqs[r].st = "idle"
  /\ \A k \in 1..(r - 1) : reqs[k].st # "idle"
  /\ \E target \in RouteTargets \cup {Unrouted} :
       Serve(r, Enter(stack, [IdleReq EXCEPT
                                !.verb = target.verb, !.path = target.path,
                                !.payload = input.payload,
                                !.query = input.query,
                                !.params = IF HasParam(target.path)
                                             THEN input.params ELSE EmptyObject,
                                !.headers = input.headers]))

\* express.json(), express.urlencoded() and the add-ons: the first body parser
\* sets req.body from the payload, and each calls next().
BodyParser(r) ==
  /\ AtLayer(r, {"json", "urlencoded", "addon"})
  /\ LET q == reqs[r]
         parses == Current(stack, q).kind \in {"json", "urlencoded"} /\ ~q.parsed
         q1 == IF parses
                 THEN [q EXCEPT !.parsed = TRUE,
                                !.body = IF q.payload.t = "object"
                                           THEN q.payload ELSE EmptyObject]
                 ELSE q
     IN Serve(r, CallNext(stack, q1, NoError))

MiddlewareFailed(id) == PlainError("middleware " \o id)

Rewritten == Obj([k \in {"n"} |-> Str("rewritten")])

\* A middleware written by the host: it calls next(), fails (throws or calls
\* next with an error), or assigns req.body and calls next().
UserMiddlewareRuns(r) ==
  /\ AtLayer(r, {"use", "mw"})
  /\ LET q == reqs[r]
         mw == Current(stack, q).mw
         ran == [q EXCEPT !.trace = Append(@, mw.id)]
     IN /\ mw.kind = "user"
        /\ \E does \in {"next", "fail", "rewrite"} :
             /\ does = "rewrite" => mw.id \in program.rewriters
             /\ Serve(r, CallNext(stack,
                                  IF does = "rewrite"
                                    THEN [ran EXCEPT !.body = Rewritten] ELSE ran,
                                  IF does = "fail" THEN MiddlewareFailed(mw.id)
                                  ELSE NoError))

ValidationMiddlewareRuns(r) ==
  /\ AtLayer(r, {"mw"})
  /\ LET q == reqs[r]
         mw == Current(stack, q).mw
     IN /\ mw.kind = "zod"
        /\ LET out == ValidationMiddleware(mw, q)
           IN Serve(r, CallNext(stack,
                                [out.req EXCEPT !.trace = Append(@, "zod:" \o mw.type)],
                                out.err))

\* Whether the arguments give the controller method the response object.
HoldsResponse(handler, q, r) ==
  \E i \in 1..Len(handler.paramFactories) :
    handler.paramFactories[i].type \in {"request", "response"}

RouteHandlerRuns(r) ==
  /\ AtLayer(r, {"handler"})
  /\ LET q == reqs[r]
         handler == Current(stack, q)
     IN \E outcome \in {"return", "returnUndefined", "throw", "promise"},
           sends \in BOOLEAN, error \in program.errors :
          /\ sends => HoldsResponse(handler, q, r)
          /\ outcome # "throw" => error = CHOOSE e \in program.errors : TRUE
          /\ Serve(r, createMethodHandler(stack, handler,
                                          [q EXCEPT !.trace = Append(@, "handler")],
                                          r, outcome, sends, error))

\* The promise a controller method returned settles.
MethodPromiseSettles(r) ==
  /\ phase = "serving"
  /\ reqs[r].st = "awaiting"
  /\ \E result \in {MethodValue, Undefined}, error \in program.errors \cup {NoError} :
       /\ error # NoError => result = Undefined
       /\ Serve(r, MethodSettled(stack,
                                  IF error = NoError
                                    THEN [reqs[r] EXCEPT
                                            !.returned = Append(@, result)]
                                  ELSE [reqs[r] EXCEPT !.raised = Append(@, error)],
                                  result, error))

ControllerErrorMiddlewareRuns(r) ==
  /\ AtLayer(r, {"errmw"})
  /\ LET q == reqs[r]
         layer == Current(stack, q)
     IN \E behaviour \in {"respond", "throw"} :
          /\ (layer.handler = "default" \/ ~InstanceOf(q.controller.cls, layer.controller))
               => behaviour = "respond"
          /\ LET out == createControllerErrorHandlingMiddleware(
                          layer.controller, layer.handler, q.err, q, behaviour)
             IN Serve(r, IF out.err = NoError
                           THEN [out.req EXCEPT !.st = "done"]
                           ELSE CallNext(stack, out.req, out.err))

\* The global errorHandler; its throw, when a response has already gone out,
\* is passed on by Express.
GlobalErrorHandlerRuns(r) ==
  /\ AtLayer(r, {"errorHandler"})
  /\ LET q == reqs[r]
     IN Serve(r, IF q.headersSent THEN CallNext(stack, q, HeadersSentError)
                 ELSE [errorHandler(q.err, q) EXCEPT !.st = "done"])

NotFoundHandlerRuns(r) ==
  /\ AtLayer(r, {"notFound"})
  /\ Serve(r, [Send(reqs[r], "notFound", Num("404"),
                    Obj([k \in {"message", "status"} |->
                           IF k = "message" THEN Str("Not Found") ELSE Num("404")]))
               EXCEPT !.st = "done"])

\* Express' own final handler: an HTML page, with the error's status when it
\* carries a valid one, else 500; 404 when there is no error.  Nothing is sent
\* when a response has already gone out.
FinalHandlerRuns(r) ==
  /\ AtLayer(r, {"final"})
  /\ LET q == reqs[r]
         status == IF q.err = NoError THEN "404"
                   ELSE IF q.err.status >= 400 /\ q.err.status < 600
                     THEN ToString(q.err.status) ELSE "500"
     IN Serve(r, IF q.headersSent THEN [q EXCEPT !.st = "done"]
                 ELSE [q EXCEPT !.st = "done", !.headersSent = TRUE,
                                !.responses = Append(@,
                                   [by |-> "finalhandler", kind |-> "html",
                                    status |-> Num(status),
                                    body |-> Str(q.err.message)])])

-----------------------------------------------------------------------------
(* The host applications of the model *)

PathA == <<"/", "a">>
PathB == <<"/", "b">>
PathId == <<"/", ":", "i", "d">>
PathApi == <<"/", "a", "p", "i">>

IController(target, prefix, middleware) ==
  [op |-> "JSONController", target |-> target, prefix |-> prefix,
   middleware |-> middleware]
IMethod(target, method, httpMethod, path, middleware) ==
  [op |-> "Method", target |-> target, method |-> method,
   httpMethod |-> httpMethod, path |-> path, middleware |-> middleware]
IParam(target, method, index, type, name) ==
  [op |-> "Param", target |-> target, method |-> method, index |-> index,
   type |-> type, name |-> name]
IUse(target, method, middleware) ==
  [op |-> "UseMiddleware", target |-> target, method |-> method,
   middleware |-> middleware]
IValidate(target, method, type, schema, options) ==
  [op |-> "Validate", target |-> target, method |-> method, type |-> type,
   schema |-> schema, options |-> options]
IErrorHandler(target, handler) ==
  [op |-> "ErrorHandler", target |-> target, handler |-> handler]

When(cond, instrs) == IF cond THEN instrs ELSE <<>>

GlobalIds == {"g1"}
ControllerIds == {"c1", "c2"}
MethodIds == {"m1", "m2"}

\* class A { @UseMiddleware(m2) @Get({path: "/:id", middleware: [m1]}) item()
\*           @Get() list() }, decorated @UseMiddleware(c2)
\* @JSONController({prefix: "/a", middleware: [c1]}); class N is not decorated.
ChainProgram(inOptions, inDecorators) ==
  [decl |->
     <<IMethod("A", "item", "get", PathId,
               When(inOptions, <<UserMiddleware("m1")>>))>> \o
     When(inDecorators, <<IUse("A", "item", <<UserMiddleware("m2")>>)>>) \o
     <<IMethod("A", "list", "get", <<>>, <<>>),
       IController("A", PathA, When(inOptions, <<UserMiddleware("c1")>>))>> \o
     When(inDecorators, <<IUse("A", "", <<UserMiddleware("c2")>>)>>),
   errors |-> {PlainError("boom")},
   rewriters |-> {},
   controllerLists |-> {<<"A">>, <<"A", "N">>, <<"N", "A">>}]

ChainPrograms ==
  {ChainProgram(o, d) : o \in BOOLEAN, d \in BOOLEAN} \ {ChainProgram(FALSE, FALSE)}

ChainInputs ==
  {[payload |-> Undefined, query |-> EmptyObject, params |-> EmptyObject,
    headers |-> EmptyObject]}

RouterOptions ==
  {[controllers |-> cs, routePrefix |-> prefix, middleware |-> g] :
     cs \in program.controllerLists, prefix \in {<<>>, PathApi},
     g \in {<<>>, <<UserMiddleware("g1")>>}}

-----------------------------------------------------------------------------
(* Spec: several requests in flight through a router built by createRouter *)

InitWith(programs, slots) ==
  /\ program \in programs
  /\ declPc = 0
  /\ storage = EmptyStorage
  /\ errorHandlers = [c \in {} |-> "none"]
  /\ reflectMeta = {}
  /\ phase = "declare"
  /\ stack = <<>>
  /\ constructed = [c \in Classes |-> 0]
  /\ bootError = ""
  /\ reqs = [r \in slots |-> IdleReq]
  /\ util = NoCall

Init == InitWith(ChainPrograms, 1..MaxReq)

Next ==
  \/ JSONControllerDecorator
  \/ MethodDecorator
  \/ UseMiddlewareDecorator
  \/ \E options \in RouterOptions : CreateRouter(options)
  \/ \E r \in DOMAIN reqs, input \in ChainInputs : Arrive(r, input)
  \/ \E r \in DOMAIN reqs : BodyParser(r)
  \/ \E r \in DOMAIN reqs : UserMiddlewareRuns(r)
  \/ \E r \in DOMAIN reqs : RouteHandlerRuns(r)
  \/ \E r \in DOMAIN reqs : MethodPromiseSettles(r)
  \/ \E r \in DOMAIN reqs : FinalHandlerRuns(r)

Spec == Init /\ [][Next]_vars

-----------------------------------------------------------------------------
(* SpecData: one request at a time through an application built by
   createExpressApp, with parameters, validation and error handlers *)

\* The parameter decorators a method's argument may carry.
ParamKinds ==
  {[type |-> "body", name |-> ""], [type |-> "body", name |-> "n"],
   [type |-> "query", name |-> ""], [type |-> "query", name |-> "n"],
   [type |-> "headers", name |-> ""], [type |-> "headers", name |-> "X-Id"],
   [type |-> "param", name |-> "id"], [type |-> "request", name |-> ""],
   [type |-> "response", name |-> ""]}

\* The validation decorators a method may carry, in the order they are applied.
ValidationLists ==
  {<<>>,
   <<IValidate("A", "item", "body", "N", NoOptions)>>,
   <<IValidate("A", "item", "body", "N", [errorStatus |-> 422])>>,
   <<IValidate("A", "item", "query", "Q", NoOptions),
     IValidate("A", "item", "body", "N", NoOptions)>>,
   <<IValidate("A", "item", "params", "Id", NoOptions)>>}

\* class A { @UseMiddleware(w1) @Validate...(..) @Put("/:id")
\*           item(@Param("id") .., @<kind>() subject) }
\* with the subject at position index and w1 a middleware that may assign
\* req.body.
DataProgram(kind, index, validations, rewrite) ==
  [decl |->
     <<IParam("A", "item", index, kind.type, kind.name)>> \o
     [j \in 1..index |-> IParam("A", "item", index - j, "param", "id")] \o
     <<IMethod("A", "item", "put", PathId, <<>>)>> \o
     validations \o
     When(rewrite, <<IUse("A", "item", <<UserMiddleware("w1")>>)>>) \o
     <<IController("A", PathA, <<>>)>>,
   errors |-> {PlainError("boom")},
   rewriters |-> {"w1"},
   controllerLists |-> {<<"A">>}]

DataPrograms ==
  {DataProgram(kind, index, validations, rewrite) :
     kind \in ParamKinds, index \in 0..MaxIndex,
     validations \in ValidationLists, rewrite \in BOOLEAN}

\* class A { @Put("/:id") item(.., @<kind>() subject) } with the subject at
\* position index and no decorator on the positions before it.
GapProgram(kind, index) ==
  [decl |->
     <<IParam("A", "item", index, kind.type, kind.name),
       IMethod("A", "item", "put", PathId, <<>>),
       IController("A", PathA, <<>>)>>,
   errors |-> {PlainError("boom")},
   rewriters |-> {},
   controllerLists |-> {<<"A">>}]

\* class A { @Put("/:id") item(@Own() subject) } where @Own is a decorator of
\* the host that records a parameter of the given type and options itself.
CustomProgram(type, options) ==
  [decl |->
     <<[op |-> "addParameterMetadata",
        record |-> [target |-> "A", method |-> "item", index |-> 0,
                    type |-> type, name |-> "", options |-> options]],
       IMethod("A", "item", "put", PathId, <<>>),
       IController("A", PathA, <<>>)>>,
   errors |-> {PlainError("boom")},
   rewriters |-> {},
   controllerLists |-> {<<"A">>}]

\* @JSONController("/a") @ErrorHandler() class A { @Get() list() }: the class
\* decorators are applied bottom-up, the error-handler decorator first.
ReadmeProgram ==
  [decl |->
     <<IMethod("A", "list", "get", <<>>, <<>>),
       IErrorHandler("A", "default"),
       IController("A", PathA, <<>>)>>,
   errors |-> {PlainError("boom"), HttpError("Resource not found", 404, Undefined)},
   rewriters |-> {},
   controllerLists |-> {<<"A">>}]

ThrownErrors ==
  {PlainError("boom"), HttpError("Test error", 400, Undefined),
   HttpError("bad", 422, Obj([k \in {"detail"} |-> Str("x")])),
   HttpError("denied", 403,
             Obj([k \in {"message", "status"} |->
                    IF k = "message" THEN Str("fine") ELSE Num("200")])),
   HttpError("", 0, Undefined)}

\* class A { @Get() list(@Res() res) } and class B extends A { @Get() boom() },
\* both controllers, each with or without @ErrorHandler.
ErrorProgram(handlerA, handlerB, order) ==
  [decl |->
     <<IParam("A", "list", 0, "response", ""),
       IMethod("A", "list", "get", <<>>, <<>>),
       IController("A", PathA, <<>>)>> \o
     When(handlerA # "none", <<IErrorHandler("A", handlerA)>>) \o
     <<IMethod("B", "boom", "get", <<>>, <<>>),
       IController("B", PathB, <<>>)>> \o
     When(handlerB # "none", <<IErrorHandler("B", handlerB)>>),
   errors |-> ThrownErrors,
   rewriters |-> {},
   controllerLists |-> {order}]

\* @ErrorHandler(handler) @UseMiddleware(c1)
\* @JSONController({prefix: "/a", middleware: [c2]}) class A {
\*   @UseMiddleware(m1) @ValidateBody(N)
\*   @Put({path: "/:id", middleware: [m2]}) item() }
GuardedProgram(handler) ==
  [decl |->
     <<IMethod("A", "item", "put", PathId, <<UserMiddleware("m2")>>),
       IValidate("A", "item", "body", "N", NoOptions),
       IUse("A", "item", <<UserMiddleware("m1")>>),
       IController("A", PathA, <<UserMiddleware("c2")>>),
       IUse("A", "", <<UserMiddleware("c1")>>),
       IErrorHandler("A", handler)>>,
   errors |-> {PlainError("boom")},
   rewriters |-> {},
   controllerLists |-> {<<"A">>}]

ErrorPrograms ==
  {ErrorProgram(a, b, order) :
     a \in {"none", "default", "custom"}, b \in {"none", "default"},
     order \in {<<"A", "B">>, <<"B", "A">>}}

DataInputs ==
  {[payload |-> payload, query |-> query, params |-> params,
    headers |-> Obj([k \in {"x-id"} |-> Str("h")])] :
     payload \in {Undefined, Obj([k \in {"n"} |-> Str("5")]),
                  Obj([k \in {"n"} |-> Str("x")]),
                  Obj([k \in {"n", "1"} |-> IF k = "n" THEN Str("7") ELSE Str("one")])},
     query \in {EmptyObject, Obj([k \in {"n"} |-> Str("7")])},
     params \in {Obj([k \in {"id"} |-> Str("5")]), Obj([k \in {"id"} |-> Str("x")])}}

AppOptions ==
  {[bodyParser |-> TRUE, cors |-> FALSE, helmet |-> FALSE, logger |-> FALSE,
    installed |-> {}, globalMiddleware |-> <<>>, controllers |-> cs,
    routePrefix |-> <<>>] : cs \in program.controllerLists}

InitData ==
  InitWith(DataPrograms \cup ErrorPrograms \cup
             {GapProgram(kind, index) : kind \in ParamKinds, index \in 1..MaxIndex}
             \cup
             {CustomProgram(type, options) :
                type \in {"custom", "999"},
                options \in {NoOptions, [factory |-> Str("text")],
                             [factory |-> [t |-> "function", id |-> "times5"]]}}
             \cup {ReadmeProgram}
             \cup {GuardedProgram(handler) : handler \in {"default", "custom"}},
           {1})

NextData ==
  \/ JSONControllerDecorator
  \/ MethodDecorator
  \/ ParameterDecorator
  \/ AddParameterMetadataCall
  \/ UseMiddlewareDecorator
  \/ ValidationDecorator
  \/ ErrorHandlerDecorator
  \/ \E options \in AppOptions : CreateExpressApp(options)
  \/ UseErrorHandler
  \/ \E r \in DOMAIN reqs, input \in DataInputs : Arrive(r, input)
  \/ \E r \in DOMAIN reqs : BodyParser(r)
  \/ \E r \in DOMAIN reqs : UserMiddlewareRuns(r)
  \/ \E r \in DOMAIN reqs : ValidationMiddlewareRuns(r)
  \/ \E r \in DOMAIN reqs : RouteHandlerRuns(r)
  \/ \E r \in DOMAIN reqs : MethodPromiseSettles(r)
  \/ \E r \in DOMAIN reqs : ControllerErrorMiddlewareRuns(r)
  \/ \E r \in DOMAIN reqs : GlobalErrorHandlerRuns(r)
  \/ \E r \in DOMAIN reqs : NotFoundHandlerRuns(r)
  \/ \E r \in DOMAIN reqs : FinalHandlerRuns(r)

SpecData == InitData /\ [][NextData]_vars

-----------------------------------------------------------------------------
(* SpecPaths: the path utilities called on their own, and route registration
   over every combination of global prefix, controller prefix and method path *)

\* Longest path string the host passes in.
MaxLen == 3

\* Every string of "/" and "a" up to MaxLen characters, and "/a//".
PathInputs ==
  UNION {[1..n -> {"/", "a"}] : n \in 0..MaxLen} \cup {<<"/", "a", "/", "/">>}

PathRoot == <<"/">>
PathUsers == <<"/", "u", "s", "e", "r", "s">>

\* @JSONController(prefix) class A { @Get(path) item() }
PathProgram(prefix, path) ==
  [decl |-> <<IMethod("A", "item", "get", path, <<>>),
              IController("A", prefix, <<>>)>>,
   errors |-> {},
   rewriters |-> {},
   controllerLists |-> {<<"A">>},
   strings |-> {}]

\* A host that declares no class and calls the path utilities.
UtilityProgram ==
  [decl |-> <<>>, errors |-> {}, rewriters |-> {}, controllerLists |-> {},
   strings |-> PathInputs]

PathRouterOptions ==
  {[controllers |-> cs, routePrefix |-> prefix, middleware |-> <<>>] :
     cs \in program.controllerLists, prefix \in PathInputs \cup {PathApi}}

\* The strings the host can pass to a utility: its own, and what
\* normalizePath has just returned to it.
Passable ==
  program.strings \cup
    (IF program.strings # {} /\ util.fn = "normalizePath" THEN {util.result} ELSE {})

NormalizePathCall(path) ==
  /\ path \in Passable
  /\ util' = [fn |-> "normalizePath", args |-> <<path>>,
              result |-> normalizePath(path)]
  /\ UNCHANGED <<program, declPc, storage, errorHandlers, reflectMeta, phase,
                 stack, constructed, bootError, reqs>>

JoinPathsCall(basePath, subPath) ==
  /\ basePath \in Passable
  /\ subPath \in Passable
  /\ util' = [fn |-> "joinPaths", args |-> <<basePath, subPath>>,
              result |-> joinPaths(basePath, subPath)]
  /\ UNCHANGED <<program, declPc, storage, errorHandlers, reflectMeta, phase,
                 stack, constructed, bootError, reqs>>

InitPaths ==
  InitWith({PathProgram(prefix, path) :
              prefix \in PathInputs, path \in PathInputs}
             \cup {PathProgram(PathUsers, PathId), UtilityProgram},
           {1})

NextPaths ==
  \/ JSONControllerDecorator
  \/ MethodDecorator
  \/ \E options \in PathRouterOptions : CreateRouter(options)
  \/ \E path \in Passable : NormalizePathCall(path)
  \/ \E basePath \in Passable, subPath \in Passable :
       JoinPathsCall(basePath, subPath)

SpecPaths == InitPaths /\ [][NextPaths]_vars

-----------------------------------------------------------------------------
(* SpecExtract: the extraction function of a parameter record evaluated on
   its own, over every parameter type and name and over request states whose
   sections are present or absent, raw or validated; and the argument list a
   route handler builds from the parameter records of one method, over every
   short list of records *)

MaxParams == 2

\* The factory createParameterFactory returns for the parameter record of
\* the given type and name, called on a request whose body and cookies are as
\* given and whose validated section, if any, holds value.
ExtractCall(type, name, section, value, body, cookies) ==
  /\ LET parameter == [target |-> "A", method |-> "item", index |-> 0,
                       type |-> type, name |-> name, options |-> NoOptions]
         q == [IdleReq EXCEPT
                 !.body = body, !.cookies = cookies,
                 !.query = EmptyObject, !.params = EmptyObject,
                 !.headers = EmptyObject,
                 !.validatedData = IF section = "none" THEN Undefined
                                   ELSE Obj([k \in {section} |-> value])]
     IN util' = [fn |-> "createParameterFactory", args |-> <<parameter, q>>,
                 result |-> createParameterFactory(parameter, q, 1)]
  /\ UNCHANGED <<program, declPc, storage, errorHandlers, reflectMeta, phase,
                 stack, constructed, bootError, reqs>>

\* createRouteHandler for a method whose stored parameter records, in the
\* order they were added, have the indices, types and names of picks: the
\* arguments the handler extracts from a request.
CreateRouteHandlerCall(picks) ==
  /\ LET parameters == [j \in 1..Len(picks) |->
                          [target |-> "A", method |-> "item",
                           index |-> picks[j][1], type |-> picks[j][2][1],
                           name |-> picks[j][2][2], options |-> NoOptions]]
         q == [IdleReq EXCEPT !.body = Undefined, !.headers = EmptyObject,
                              !.query = Obj([k \in {"n"} |-> Str("7")]),
                              !.params = Obj([k \in {"id"} |-> Str("5")])]
     IN util' = [fn |-> "createRouteHandler", args |-> <<parameters, q>>,
                 result |-> ExtractArgs(
                              createParameterFactories(SortByIndex(parameters)),
                              q, 1)]
  /\ UNCHANGED <<program, declPc, storage, errorHandlers, reflectMeta, phase,
                 stack, constructed, bootError, reqs>>

NextExtract ==
  \/ \E n \in 1..MaxParams :
       \E picks \in [1..n -> (0..1) \X {<<"param", "id">>, <<"query", "n">>,
                                        <<"999", "id">>}] :
         CreateRouteHandlerCall(picks)
  \/ \E type \in {"request", "response", "body", "query", "param", "headers",
                 "cookies", "session", "custom", "999"},
        name \in {"", "n", "0"},
        section \in {"none", "body", "query", "params"},
        value \in {Null, Str("s"), Obj([k \in {"n"} |-> Str("5")])},
        body \in {Undefined, Obj([k \in {"n"} |-> Str("7")])},
        cookies \in {Undefined, Obj([k \in {"n"} |-> Str("c")])} :
       ExtractCall(type, name, section, value, body, cookies)

SpecExtract == InitWith({UtilityProgram}, {1}) /\ [][NextExtract]_vars

-----------------------------------------------------------------------------
(* SpecRegistry: the registry filled by decorators and by direct calls and
   emptied by clear(), over every short sequence of operations, and then
   read by direct calls of registerController *)

\* Number of registry operations the host performs.
MaxOps == 3

\* The operations of a host that exercises the registry: decorators on the
\* classes A and A2 (both named A), addControllerMetadata for N, and clear().
RegistryOps ==
  {IController(c, PathA, <<>>) : c \in {"A", "A2"}} \cup
  {IController("A", PathB, <<>>)} \cup
  {IMethod(c, "item", "get", PathId, <<>>) : c \in {"A", "A2"}} \cup
  {IMethod("A2", "list", "get", <<>>, <<>>)} \cup
  {IParam(c, "item", 0, "body", "") : c \in {"A", "A2"}} \cup
  {IUse(c, method, <<UserMiddleware("m1")>>) :
     c \in {"A", "A2"}, method \in {"", "item"}} \cup
  {IUse("A_item", method, <<UserMiddleware("m2")>>) : method \in {"", "plain"}} \cup
  {IErrorHandler(c, "default") : c \in {"A", "A2"}} \cup
  {IErrorHandler("A", "custom")} \cup
  {[op |-> "addControllerMetadata", target |-> "N", prefix |-> PathB],
   [op |-> "clear"]}

\* The classes the host then registers with registerController, in order.
DirectLists == {<<"A">>, <<"A", "A">>, <<"A", "A2", "A">>}

InitRegistry ==
  InitWith({[decl |-> decl, errors |-> {}, rewriters |-> {},
             controllerLists |-> {}] : decl \in [1..MaxOps -> RegistryOps]},
           {1})

NextRegistry ==
  \/ JSONControllerDecorator
  \/ MethodDecorator
  \/ ParameterDecorator
  \/ UseMiddlewareDecorator
  \/ ErrorHandlerDecorator
  \/ AddControllerMetadataCall
  \/ ClearCall
  \/ \E controllers \in DirectLists, supplied \in BOOLEAN :
       RegisterControllerCall(controllers, supplied)

SpecRegistry == InitRegistry /\ [][NextRegistry]_vars

-----------------------------------------------------------------------------
(* SpecPair: two requests in flight together through an application whose
   method takes a route parameter and a second argument, with or without
   validation of the body *)

InitPair ==
  InitWith({DataProgram(kind, 1, validations, FALSE) :
              kind \in {[type |-> "body", name |-> "n"],
                        [type |-> "response", name |-> ""]},
              validations \in {<<>>, <<IValidate("A", "item", "body", "N",
                                                 NoOptions)>>}},
           {1, 2})

NextPair ==
  \/ JSONControllerDecorator
  \/ MethodDecorator
  \/ ParameterDecorator
  \/ ValidationDecorator
  \/ \E options \in AppOptions, bodyParser \in BOOLEAN :
       CreateExpressApp([options EXCEPT !.bodyParser = bodyParser])
  \/ \E r \in DOMAIN reqs, n \in {"5", "x"} :
       Arrive(r, [payload |-> Obj([k \in {"n"} |-> Str(n)]),
                  query |-> EmptyObject,
                  params |-> Obj([k \in {"id"} |-> Str(n)]),
                  headers |-> EmptyObject])
  \/ \E r \in DOMAIN reqs : BodyParser(r)
  \/ \E r \in DOMAIN reqs : ValidationMiddlewareRuns(r)
  \/ \E r \in DOMAIN reqs : RouteHandlerRuns(r)
  \/ \E r \in DOMAIN reqs : MethodPromiseSettles(r)
  \/ \E r \in DOMAIN reqs : FinalHandlerRuns(r)

SpecPair == InitPair /\ [][NextPair]_vars

-----------------------------------------------------------------------------
(* Properties *)

Tier(entry) ==
  CASE entry \in GlobalIds -> 1
    [] entry \in ControllerIds -> 2
    [] entry \in MethodIds -> 3
    [] entry = "handler" -> 4
    [] OTHER -> 0

Ids(middleware) == {middleware[j].id : j \in 1..Len(middleware)}

\* The middleware the host declared for the route of request q: on the
\* router, on the controller and on the method.
DeclaredFor(q) ==
  LET method == IF HasParam(q.path) THEN "item" ELSE "list"
      decl == program.decl
      applies(i) ==
        \/ decl[i].op = "JSONController"
        \/ decl[i].op = "UseMiddleware" /\ decl[i].method \in {"", method}
        \/ decl[i].op = "Method" /\ decl[i].method = method
  IN UNION {Ids(decl[i].middleware) : i \in {j \in 1..Len(decl) : applies(j)}}
     \cup {stack[i].mw.id : i \in {j \in 1..Len(stack) : stack[j].kind = "use"}}

\* C1: for every request, whatever else is in flight, the middleware that have
\* run ran in the order global, controller-level, method-level, route handler,
\* and none ran before every declared middleware of the earlier tiers had run.
C1_MiddlewareOrder ==
  \A r \in DOMAIN reqs :
    LET q == reqs[r]
        t == q.trace
    IN \A i \in 1..Len(t) :
         /\ \A j \in 1..(i - 1) : Tier(t[j]) <= Tier(t[i])
         /\ q.path # Unrouted.path =>
              \A id \in DeclaredFor(q) :
                Tier(id) < Tier(t[i]) => \E j \in 1..(i - 1) : t[j] = id

Ran(q, id) == \E i \in 1..Len(q.trace) : q.trace[i] = id

\* One request has been through g1, c1, c2, m1, m2 and its handler and waits for
\* the method's promise while another is part-way through the same chain.
C1_Witness ==
  \E r1, r2 \in DOMAIN reqs :
    /\ r1 # r2
    /\ reqs[r1].st = "awaiting"
    /\ \A id \in {"g1", "c1", "c2", "m1", "m2", "handler"} : Ran(reqs[r1], id)
    /\ reqs[r2].st = "active"
    /\ reqs[r2].path = reqs[r1].path
    /\ Ran(reqs[r2], "c1") /\ ~Ran(reqs[r2], "handler")

\* C2: when the controller method throws, or the promise it returned rejects,
\* the route handler calls next exactly once, with that very error, and sends
\* no response.
C2_ErrorForwardedOnce ==
  \A r \in DOMAIN reqs :
    LET q == reqs[r]
    IN q.raised # <<>> =>
         /\ q.nexts = q.raised
         /\ Len(q.nexts) = 1
         /\ \A i \in 1..Len(q.responses) : q.responses[i].by # "handler"

\* A request whose method raised has been forwarded and answered by Express'
\* final handler with the error's message.
C2_Witness ==
  \E r \in DOMAIN reqs :
    /\ reqs[r].raised = <<PlainError("boom")>>
    /\ reqs[r].nexts = <<PlainError("boom")>>
    /\ reqs[r].st = "done"
    /\ reqs[r].err = PlainError("boom")
    /\ \E i \in 1..Len(reqs[r].responses) : reqs[r].responses[i].by = "finalhandler"

\* The request section a parameter type reads.
Section(type) == IF type = "param" THEN "params" ELSE type

\* The parameter decorators the host wrote on the method that request q ran.
DeclaredParams(q) ==
  {program.decl[i] : i \in {j \in 1..Len(program.decl) :
                             /\ program.decl[j].op = "Param"
                             /\ program.decl[j].target = q.controller.cls
                             /\ program.decl[j].method = q.method}}

\* The whole container for a parameter declared without a name, else its
\* named field.
Pick(container, name) ==
  IF name = "" THEN container ELSE GetPropOptional(container, name)

\* C3: the argument for a body, query or route parameter is taken from the
\* section's validated data when a validation middleware stored some (whole for
\* a parameter declared without a name, else the named field), and from the
\* raw section only when there is none.
C3_ValidatedTakesPrecedence ==
  \A r \in DOMAIN reqs :
    LET q == reqs[r]
    IN q.invoked > 0 =>
         \A p \in DeclaredParams(q) :
           p.type \in {"body", "query", "param"} =>
             LET validated == GetPropOptional(q.validatedData, Section(p.type))
             IN q.args[p.index + 1] =
                  IF validated # Undefined THEN Pick(validated, p.name)
                  ELSE Pick(q[Section(p.type)], p.name)

\* The errorStatus the host configured for the validation of a section.
ConfiguredStatus(type) ==
  LET given == {i \in 1..Len(program.decl) :
                  /\ program.decl[i].op = "Validate"
                  /\ program.decl[i].type = type
                  /\ "errorStatus" \in DOMAIN program.decl[i].options}
  IN IF given = {} THEN 400
     ELSE program.decl[CHOOSE i \in given : TRUE].options.errorStatus

IsValidationError(err) ==
  /\ IsHttpError(err)
  /\ err.message \in {"Validation failed for " \o s : s \in {"body", "query", "params"}}

Sections == {"body", "query", "params"}

C5_ValidationSuccess ==
  [][\A r \in DOMAIN reqs :
       ValidationMiddlewareRuns(r) =>
         LET q == reqs[r]
             mw == Current(stack, q).mw
             result == SchemaParse(mw.schema, q[mw.type])
         IN result.ok =>
              /\ reqs'[r][mw.type] = result.value
              /\ reqs'[r].validatedData.t = "object"
              /\ GetPropOptional(reqs'[r].validatedData, mw.type) = result.value
              /\ \A s \in Sections \ {mw.type} :
                   GetPropOptional(reqs'[r].validatedData, s) =
                     GetPropOptional(q.validatedData, s)
              /\ reqs'[r].err = NoError
              /\ reqs'[r].pos = q.pos /\ reqs'[r].sub = q.sub + 1]_vars

\* Query and body have both been validated: each section holds its parsed
\* value, which differs from what arrived.
C5_Witness ==
  \E r \in DOMAIN reqs :
    /\ reqs[r].validatedData.t = "object"
    /\ DOMAIN reqs[r].validatedData.f = {"body", "query"}
    /\ reqs[r].body = reqs[r].validatedData.f["body"]
    /\ reqs[r].query = reqs[r].validatedData.f["query"]
    /\ reqs[r].body # reqs[r].payload
    /\ reqs[r].invoked = 1

\* C6: a parameter declared @Body() or @Query() without a name receives the
\* whole body or query (validated if there is validated data, else raw) at
\* whatever position it stands in the parameter list.
C6_UnnamedReceivesWhole ==
  \A r \in DOMAIN reqs :
    LET q == reqs[r]
    IN q.invoked > 0 =>
         \A p \in DeclaredParams(q) :
           (p.type \in {"body", "query"} /\ p.name = "") =>
             LET validated == GetPropOptional(q.validatedData, p.type)
             IN q.args[p.index + 1] =
                  IF validated # Undefined THEN validated ELSE q[p.type]

\* C7: a parameter declared @Headers() without a name receives the whole
\* headers map; with a name it receives the header of that name, lowercased.
C7_HeadersParameter ==
  \A r \in DOMAIN reqs :
    LET q == reqs[r]
    IN q.invoked > 0 =>
         \A p \in DeclaredParams(q) :
           p.type = "headers" =>
             q.args[p.index + 1] =
               IF p.name = "" THEN q.headers
               ELSE GetPropOptional(q.headers, toLowerCase(p.name))

\* The layers the router holds for a class: its routes and its error handler.
LayersFor(stk, c) ==
  {i \in 1..Len(stk) :
     \/ stk[i].kind = "route" /\ stk[i].chain[Len(stk[i].chain)].target = c
     \/ stk[i].kind = "errmw" /\ stk[i].controller = c}

\* The first class of a list that has no controller record.
FirstNonController(controllers) ==
  LET bad == {i \in 1..Len(controllers) :
                ~HasControllerMetadata(storage, controllers[i])}
  IN controllers[CHOOSE i \in bad : \A j \in bad : i <= j]

\* C8: registering a class that has no controller record throws an error that
\* says the class is not a controller; no instance of the class has been
\* constructed and the router holds no route and no error handler for it.
C8_NonControllerRejected ==
  [][\A options \in RouterOptions :
       (/\ CreateRouter(options)
        /\ \E i \in 1..Len(options.controllers) :
             ~HasControllerMetadata(storage, options.controllers[i])) =>
         LET c == FirstNonController(options.controllers)
         IN /\ bootError' = NotAController(c)
            /\ phase' = "aborted"
            /\ constructed'[c] = 0
            /\ LayersFor(stack', c) = {}]_vars

\* Controller A was registered and then the undecorated class N was refused.
C8_Witness ==
  /\ phase = "aborted"
  /\ bootError = NotAController("N")
  /\ constructed["A"] = 1
  /\ constructed["N"] = 0
  /\ LayersFor(stack, "A") # {}
  /\ LayersFor(stack, "N") = {}

\* C9: the error middleware installed for controller A handles the error when
\* the instance recorded on the request is A's own, and otherwise (another
\* controller's instance, a subclass's, or none) passes the same error on
\* without sending a response.
C9_ScopedToOwnController ==
  [][\A r \in DOMAIN reqs :
       ControllerErrorMiddlewareRuns(r) =>
         LET q == reqs[r]
             layer == Current(stack, q)
         IN IF q.controller.cls = layer.controller
              THEN reqs'[r].handledBy = Append(q.handledBy, layer.controller)
              ELSE /\ reqs'[r].handledBy = q.handledBy
                   /\ reqs'[r].responses = q.responses
                   /\ reqs'[r].err = q.err]_vars

\* The body errorHandler gives an error: message and status, with the data of
\* an HttpError merged at the top level.
ClientBody(err) ==
  LET base == [k \in {"message", "status"} |->
                 IF k = "message"
                   THEN Str(IF err.message = "" THEN "Internal Server Error"
                            ELSE err.message)
                   ELSE Num(ToString(IF IsHttpError(err) THEN err.status ELSE 500))]
  IN Obj(IF IsHttpError(err) /\ err.data.t = "object"
           THEN [k \in DOMAIN err.data.f \cup {"message", "status"} |->
                   IF k \in DOMAIN err.data.f THEN err.data.f[k] ELSE base[k]]
           ELSE base)

\* C10: a request that ended with an error, in an application built by
\* createExpressApp, was answered once, in JSON, with the body
\* {message, status, ...data} and the HTTP status of the body's status,
\* whether the controller's default handler or the global one answered.
C10_ErrorsAnsweredAsJson ==
  \A r \in DOMAIN reqs :
    LET q == reqs[r]
    IN (/\ q.st = "done"
        /\ q.err # NoError
        /\ \A i \in 1..Len(q.responses) :
             q.responses[i].by \notin {"method", "customErrorHandler"}) =>
         /\ Len(q.responses) = 1
         /\ q.responses[1].kind = "json"
         /\ q.responses[1].body = ClientBody(q.err)
         /\ q.responses[1].status = q.responses[1].body.f["status"]

SentByMethod(q) ==
  \E i \in 1..Len(q.responses) : q.responses[i].by = "method"

Canonical(path) ==
  \/ path = PathRoot
  \/ /\ Len(path) >= 2
     /\ path[1] = "/"
     /\ path[2] # "/"
     /\ path[Len(path)] # "/"

\* The paths of the routes in a stack.
RoutePaths(stk) ==
  {stk[i].path : i \in {j \in 1..Len(stk) : stk[j].kind = "route"}}

\* The prefix the host gave the controller of the program, and the path it
\* gave the controller's method.
DeclaredPrefix == program.decl[2].prefix
DeclaredPath == program.decl[1].path

\* C12: the path registered for a route is join(join(global prefix,
\* controller prefix), method path) and is canonical, whatever the three
\* inputs; /api, /users and /:id give /api/users/:id and nothing else.
C12_RegisteredPathCanonical ==
  [][\A options \in PathRouterOptions :
       CreateRouter(options) =>
         /\ RoutePaths(stack') =
              {joinPaths(joinPaths(options.routePrefix, DeclaredPrefix),
                         DeclaredPath)}
         /\ \A path \in RoutePaths(stack') : Canonical(path)
         /\ (/\ options.routePrefix = PathApi
             /\ DeclaredPrefix = PathUsers
             /\ DeclaredPath = PathId) =>
              RoutePaths(stack') = {PathApi \o PathUsers \o PathId}]_vars

\* C13: normalizePath applied to what normalizePath returned gives the same
\* string again; "" gives "/", "/a/" gives "/a" and "/a//" gives "/a".
C13_NormalizeIdempotent ==
  [][\A path \in Passable :
       NormalizePathCall(path) =>
         /\ (util.fn = "normalizePath" /\ path = util.result) =>
              util'.result = util.result
         /\ path = <<>> => util'.result = PathRoot
         /\ path = <<"/", "a", "/">> => util'.result = PathA
         /\ path = <<"/", "a", "/", "/">> => util'.result = PathA]_vars

\* C14: for a path p that normalizePath returned, joinPaths("/", p) is p and
\* joinPaths(p, "/") is p.
C14_JoinIdentity ==
  [][\A basePath \in Passable, subPath \in Passable :
       (/\ JoinPathsCall(basePath, subPath)
        /\ util.fn = "normalizePath"
        /\ \/ basePath = PathRoot /\ subPath = util.result
           \/ subPath = PathRoot /\ basePath = util.result) =>
         util'.result = util.result]_vars

MethodNames == {"item", "list", "boom", "plain"}

\* C15: the method, parameter and middleware records a lookup for a class
\* returns were all added for that very class, also when another class has
\* the same name.
C15_KeyedByIdentity ==
  \A c \in Classes :
    /\ LET refs == getControllerMethodMetadata(storage, c)
       IN \A i \in 1..Len(refs) :
            storage.methods[refs[i][1]][refs[i][2]].target = c
    /\ LET found == getControllerMiddleware(storage, c)
       IN \A i \in 1..Len(found) : found[i].target = c
    /\ \A m \in MethodNames :
         /\ LET found == getMethodParameterMetadata(storage, c, m)
            IN \A i \in 1..Len(found) : found[i].target = c
         /\ LET found == getMethodMiddleware(storage, c, m)
            IN \A i \in 1..Len(found) : found[i].target = c

\* The position of the last clear() the host has performed, 0 when none.
LastClear ==
  LET done == {i \in 1..declPc : program.decl[i].op = "clear"}
  IN IF done = {} THEN 0 ELSE CHOOSE i \in done : \A j \in done : j <= i

\* What a registry that starts empty holds after the operations instrs.
RECURSIVE Replayed(_, _)
Replayed(s, instrs) ==
  IF instrs = <<>> THEN s
  ELSE LET i == Head(instrs)
           next ==
             CASE i.op = "JSONController" ->
                    JSONController(s, i.target, i.prefix, i.middleware)
               [] i.op = "Method" ->
                    createMethodDecorator(s, i.target, i.method, i.httpMethod,
                                          i.path, i.middleware)
               [] i.op = "Param" ->
                    createParameterDecorator(s, i.target, i.method, i.index,
                                             i.type, i.name, NoOptions)
               [] i.op = "UseMiddleware" ->
                    UseMiddleware(s, i.target, i.method, i.middleware)
               [] i.op = "addControllerMetadata" ->
                    addControllerMetadata(s, [target |-> i.target,
                                              prefix |-> i.prefix,
                                              middleware |-> <<>>])
               [] OTHER -> s
       IN Replayed(next, Tail(instrs))

C17_IsControllerIffRecord ==
  \A T \in Classes :
    isController(reflectMeta, T) <=> HasControllerMetadata(storage, T)

\* C18: route registration only reads the registry: when createRouter
\* returns, every controller, method, parameter and middleware record is what
\* it was when the declarations ended.
C18_RegistrationReadsOnly ==
  [][\A options \in RouterOptions :
       CreateRouter(options) => storage' = storage]_vars

\* How many times class c occurs in a list of classes.
RECURSIVE Occurrences(_, _)
Occurrences(c, list) ==
  IF list = <<>> THEN 0
  ELSE (IF Head(list) = c THEN 1 ELSE 0) + Occurrences(c, Tail(list))

\* The routes of a stack whose handler is bound to an instance of class c.
RoutesOf(stk, c) ==
  {i \in 1..Len(stk) :
     stk[i].kind = "route" /\ stk[i].chain[Len(stk[i].chain)].instance.cls = c}

\* The instances of class c the routes are bound to.
BoundInstances(stk, c) ==
  {stk[i].chain[Len(stk[i].chain)].instance : i \in RoutesOf(stk, c)}

\* C19: with an instances map, registerController constructs a class once
\* however often it is registered, and every route of the class is bound to
\* that one instance; with no map, every registration constructs its own
\* instance.
C19_InstanceReuse ==
  [][\A controllers \in DirectLists, supplied \in BOOLEAN :
       RegisterControllerCall(controllers, supplied) =>
         \A c \in Classes :
           LET made == constructed'[c] - constructed[c]
           IN /\ supplied => made <= 1
              /\ bootError' = "" =>
                   /\ made = IF supplied
                               THEN (IF Occurrences(c, controllers) > 0 THEN 1 ELSE 0)
                               ELSE Occurrences(c, controllers)
                   /\ BoundInstances(stack', c) \subseteq
                        {[cls |-> c, n |-> n] :
                           n \in (constructed[c] + 1)..constructed'[c]}
                   /\ Cardinality(BoundInstances(stack', c)) <= made]_vars

\* Class A was registered twice with one instances map: two routes lead to
\* its method item, both bound to the only instance that was constructed.
C19_WitnessReused ==
  /\ phase = "serving"
  /\ constructed["A"] = 1
  /\ Cardinality(RoutesOf(stack, "A")) >= 2
  /\ BoundInstances(stack, "A") = {[cls |-> "A", n |-> 1]}

\* The record the parameter decorator p stores.
StoredParameter(p) ==
  getMethodParameterMetadata(
    createParameterDecorator(EmptyStorage, p.target, p.method, p.index, p.type,
                             p.name, NoOptions),
    p.target, p.method)[1]

\* C20: the argument list of a controller method is as long as the largest
\* declared parameter index plus one; each declared position holds what its
\* parameter extracts and each undeclared position holds undefined.
C20_ArgumentPositions ==
  \A r \in DOMAIN reqs :
    LET q == reqs[r]
        added == {j \in 1..Len(program.decl) :
                    /\ program.decl[j].op = "addParameterMetadata"
                    /\ program.decl[j].record.target = q.controller.cls
                    /\ program.decl[j].record.method = q.method}
        declared == {StoredParameter(p) : p \in DeclaredParams(q)} \cup
                    {program.decl[j].record : j \in added}
        indices == {p.index : p \in declared}
        largest == IF indices = {} THEN -1
                   ELSE CHOOSE m \in indices : \A k \in indices : k <= m
    IN q.invoked > 0 =>
         /\ Len(q.args) = largest + 1
         /\ \A p \in declared :
              q.args[p.index + 1] = createParameterFactory(p, q, r)
         /\ \A i \in 0..largest : i \notin indices => q.args[i + 1] = Undefined

\* A method whose only decorated parameter is the second was called: the
\* first argument is undefined and the second holds the extracted value.
C20_WitnessGap ==
  \E r \in DOMAIN reqs :
    /\ reqs[r].invoked > 0
    /\ {p.index : p \in DeclaredParams(reqs[r])} = {1}
    /\ Len(reqs[r].args) = 2
    /\ reqs[r].args[1] = Undefined
    /\ reqs[r].args[2] # Undefined

\* The parameter records the host added itself whose type is outside the
\* enumeration, or custom without a callable factory.
Unextractable ==
  {program.decl[i].record :
     i \in {j \in 1..Len(program.decl) :
              /\ program.decl[j].op = "addParameterMetadata"
              /\ \/ program.decl[j].record.type = "999"
                 \/ /\ program.decl[j].record.type = "custom"
                    /\ \/ "factory" \notin DOMAIN program.decl[j].record.options
                       \/ program.decl[j].record.options.factory.t # "function"}}

\* C21: when the route handler of a method with such a parameter has run, the
\* method was invoked, nothing was thrown by the extraction, and the argument
\* at the parameter's position is undefined.
C21_UnknownParameterUndefined ==
  \A r \in DOMAIN reqs :
    LET q == reqs[r]
    IN (\E i \in 1..Len(q.trace) : q.trace[i] = "handler") =>
         \A p \in Unextractable :
           (p.target = q.controller.cls /\ p.method = q.method) =>
             /\ q.invoked = 1
             /\ q.err # TypeError
             /\ q.args[p.index + 1] = Undefined

\* A method with a custom parameter whose options.factory is not a function
\* was invoked with undefined.
C21_WitnessNotCallable ==
  \E r \in DOMAIN reqs :
    /\ reqs[r].invoked = 1
    /\ reqs[r].args = <<Undefined>>
    /\ \E p \in Unextractable :
         p.type = "custom" /\ "factory" \in DOMAIN p.options

\* C22: the error-handler decorator on a class that is not yet marked as a
\* controller throws at once and records nothing for the class; on a marked
\* class it records the handler it was given (the default one when none).
C22_ErrorHandlerNeedsController ==
  [][ErrorHandlerDecorator =>
       IF isController(reflectMeta, Instr.target)
         THEN /\ phase' = "declare"
              /\ bootError' = ""
              /\ getErrorHandlerMetadata(errorHandlers', Instr.target) = Instr.handler
         ELSE /\ phase' = "aborted"
              /\ bootError' # ""
              /\ errorHandlers' = errorHandlers
              /\ getErrorHandlerMetadata(errorHandlers', Instr.target) = "none"]_vars

\* The decorator recorded the custom handler for the controller A and then
\* threw on the class A2, which is not a controller and has no handler.
C22_WitnessThrew ==
  /\ phase = "aborted"
  /\ declPc > 0
  /\ program.decl[declPc] = IErrorHandler("A2", "default")
  /\ getErrorHandlerMetadata(errorHandlers, "A") = "custom"
  /\ getErrorHandlerMetadata(errorHandlers, "A2") = "none"
  /\ ~isController(reflectMeta, "A2")

\* C23: the class written with @JSONController above @ErrorHandler() loads,
\* is a controller with an error handler once its decorators have run, and
\* every error one of its methods throws is answered as JSON by that handler.
C23_ReadmeOrderWorks ==
  program = ReadmeProgram =>
    /\ phase # "aborted"
    /\ declPc = Len(program.decl) =>
         /\ HasControllerMetadata(storage, "A")
         /\ getErrorHandlerMetadata(errorHandlers, "A") = "default"
    /\ \A r \in DOMAIN reqs :
         (reqs[r].st = "done" /\ reqs[r].raised # <<>>) =>
           /\ reqs[r].handledBy = <<"A">>
           /\ Len(reqs[r].responses) = 1
           /\ reqs[r].responses[1].kind = "json"

\* C24: a step taken for one request leaves every other request as it was,
\* and what a request ends up with (the arguments of its method, its
\* validated body, the controller instance recorded on it) is computed from
\* its own request and response alone.
C24_RequestsIsolated ==
  /\ [][\A r \in DOMAIN reqs :
          reqs'[r] # reqs[r] =>
            \A s \in DOMAIN reqs \ {r} : reqs'[s] = reqs[s]]_vars
  /\ [](\A r \in DOMAIN reqs :
          LET q == reqs[r]
          IN /\ q.invoked > 0 =>
                  /\ q.controller = [cls |-> "A", n |-> 1]
                  /\ \A p \in DeclaredParams(q) :
                       q.args[p.index + 1] =
                         createParameterFactory(StoredParameter(p), q, r)
             /\ q.validatedData # Undefined =>
                  q.validatedData =
                    Obj([s \in {"body"} |-> SchemaParse("N", q.payload).value]))

\* The first request is suspended on the promise its method returned while
\* the second, which carries other data, has had its method called: each
\* method got its own request's values.
C24_WitnessInterleaved ==
  /\ DOMAIN reqs = {1, 2}
  /\ reqs[1].st = "awaiting"
  /\ reqs[1].invoked = 1
  /\ reqs[2].invoked = 1
  /\ reqs[1].payload # reqs[2].payload
  /\ reqs[1].args # reqs[2].args
  /\ Len(reqs[2].args) = 2

\* The registry operations performed since the last clear() that name class c.
OperationsOn(c) ==
  LET Names(i) == "target" \in DOMAIN i /\ i.target = c
  IN SelectSeq(SubSeq(program.decl, LastClear + 1, declPc), Names)

\* C25: the middleware lookups for a class and for a method of a class return
\* the records added for that class and method, in the order they were added,
\* and the empty list when none was added.
C25_MiddlewareInInsertionOrder ==
  \A c \in Classes :
    LET own == Replayed(EmptyStorage, OperationsOn(c))
    IN /\ getControllerMiddleware(storage, c) = getControllerMiddleware(own, c)
       /\ \A m \in MethodNames :
            getMethodMiddleware(storage, c, m) = getMethodMiddleware(own, c, m)

\* C26: while the declarations run, a class has a controller record exactly
\* when one was added for it since the last clear(), and the record is the
\* one added last; its error handler is the one registered last, if any.
C26_SingleSlot ==
  phase = "declare" =>
    \A c \in Classes :
      LET since == (LastClear + 1)..declPc
          records == {i \in since :
                        /\ program.decl[i].op \in {"JSONController",
                                                   "addControllerMetadata"}
                        /\ program.decl[i].target = c}
          handlers == {i \in since : /\ program.decl[i].op = "ErrorHandler"
                                     /\ program.decl[i].target = c}
          last(S) == CHOOSE i \in S : \A j \in S : j <= i
      IN /\ HasControllerMetadata(storage, c) <=> records # {}
         /\ records # {} =>
              /\ storage.controllers[c].target = c
              /\ storage.controllers[c].prefix = program.decl[last(records)].prefix
         /\ getErrorHandlerMetadata(errorHandlers, c) =
              IF handlers = {} THEN "none"
              ELSE program.decl[last(handlers)].handler

\* The controller decorator was applied to class A twice with different
\* prefixes: the one record of A carries the second prefix.
C26_WitnessReplaced ==
  /\ phase = "declare"
  /\ \E i \in 1..declPc, j \in 1..declPc :
       /\ i < j
       /\ program.decl[i] = IController("A", PathA, <<>>)
       /\ program.decl[j] = IController("A", PathB, <<>>)
       /\ \A k \in (j + 1)..declPc : program.decl[k].op = "ErrorHandler"
  /\ storage.controllers["A"].prefix = PathB
  /\ DOMAIN storage.controllers = {"A"}

\* C27: an application built by createExpressApp with bodyParser: false has
\* no body-parsing middleware among the layers a request passes on its way to
\* a controller's route.
C27_BodyParserDisabled ==
  [][\A options \in AppOptions :
       CreateExpressApp([options EXCEPT !.bodyParser = FALSE]) =>
         \A i \in 1..Len(stack') : stack'[i].kind \notin {"json", "urlencoded"}]_vars

\* C28: in every route a registration installs, each middleware the host
\* declared once for the route's controller or method stands exactly once in
\* the route's chain.
C28_MiddlewareOncePerRoute ==
  \A i \in 1..Len(stack) :
    stack[i].kind = "route" =>
      LET chain == stack[i].chain
          method == chain[Len(chain)].method
          decl == program.decl
          applies(k) ==
            \/ decl[k].op = "JSONController"
            \/ decl[k].op = "UseMiddleware" /\ decl[k].method \in {"", method}
            \/ decl[k].op = "Method" /\ decl[k].method = method
          declared ==
            UNION {Ids(decl[k].middleware) : k \in {j \in 1..Len(decl) : applies(j)}}
      IN \A id \in declared :
           Cardinality({j \in 1..Len(chain) :
                          chain[j].kind = "mw" /\ chain[j].mw.id = id}) = 1

\* C29: once the controller method of a request has completed (returned,
\* thrown, or its promise settled), the method and its route handler have
\* between them either sent a response or forwarded an error through next,
\* and not both.
C29_RespondOrForward ==
  \A r \in DOMAIN reqs :
    LET q == reqs[r]
        sent == \E i \in 1..Len(q.responses) :
                  q.responses[i].by \in {"method", "handler"}
        forwarded == q.nexts # <<>>
    IN (q.returned # <<>> \/ q.raised # <<>>) => (sent <=> ~forwarded)

\* C30: a request whose route handler has not started has no controller
\* instance recorded on it, so an error forwarded by a controller-level or
\* method-level middleware or by a failed validation is not handled by the
\* controller's error handler; once such a request is finished with its
\* error, the global error handler or Express' final handler answered it.
C30_MiddlewareErrorsBypassHandler ==
  \A r \in DOMAIN reqs :
    LET q == reqs[r]
    IN ~Ran(q, "handler") =>
         /\ q.controller = NoInstance
         /\ q.handledBy = <<>>
         /\ \A i \in 1..Len(q.responses) :
              q.responses[i].by \notin {"defaultControllerErrorHandler",
                                        "customErrorHandler"}
         /\ (q.st = "done" /\ q.err # NoError) =>
              \E i \in 1..Len(q.responses) :
                q.responses[i].by \in {"errorHandler", "finalhandler"}

\* A request of the guarded controller failed in a middleware or in
\* validation, went past the controller's error-handling middleware and was
\* answered by the global error handler.
C30_WitnessPassedOn ==
  \E r \in DOMAIN reqs :
    LET q == reqs[r]
    IN /\ program = GuardedProgram("custom")
       /\ q.st = "done"
       /\ q.err # NoError
       /\ q.trace # <<>> /\ ~Ran(q, "handler")
       /\ \E i \in 1..(q.pos - 1) :
            stack[i].kind = "errmw" /\ stack[i].controller = "A"
       /\ q.responses # <<>> /\ q.responses[1].by = "errorHandler"

\* The middleware of the declarations that sel picks, in declaration order.
Gathered(sel(_)) ==
  LET decl == program.decl
      of(i) == IF decl[i].op = "Validate"
                 THEN <<createZodValidationMiddleware(decl[i].schema, decl[i].type,
                                                      decl[i].options)>>
               ELSE decl[i].middleware
      upTo[i \in 0..Len(decl)] ==
        IF i = 0 THEN <<>>
        ELSE upTo[i - 1] \o (IF sel(decl[i]) THEN of(i) ELSE <<>>)
  IN upTo[Len(decl)]

\* C31: the chain of every route is the middleware of the controller
\* decorator's options, then the middleware records of the class in the order
\* they were added, then the middleware of the method decorator's options,
\* then the middleware records of the method (validation included) in the
\* order they were added, then the handler.
C31_ChainComposition ==
  \A i \in 1..Len(stack) :
    stack[i].kind = "route" =>
      LET chain == stack[i].chain
          handler == chain[Len(chain)]
          c == handler.target
          m == handler.method
          controllerOwn(d) == d.op = "JSONController" /\ d.target = c
          controllerAdded(d) ==
            /\ d.op \in {"JSONController", "UseMiddleware"}
            /\ d.target = c
            /\ d.op = "UseMiddleware" => d.method = ""
          methodOwn(d) == d.op = "Method" /\ d.target = c /\ d.method = m
          methodAdded(d) ==
            d.op \in {"UseMiddleware", "Validate"} /\ d.target = c /\ d.method = m
          expected == Gathered(controllerOwn) \o Gathered(controllerAdded) \o
                      Gathered(methodOwn) \o Gathered(methodAdded)
      IN /\ Len(chain) = Len(expected) + 1
         /\ \A j \in 1..Len(expected) :
              chain[j] = [kind |-> "mw", mw |-> expected[j]]

\* The guarded controller's route is installed: c2 of the options, the records
\* c2 and c1, m2 of the method options, then validation and m1.
C31_WitnessAllFour ==
  /\ program = GuardedProgram("default")
  /\ \E i \in 1..Len(stack) :
       /\ stack[i].kind = "route"
       /\ Len(stack[i].chain) = 7
       /\ stack[i].chain[1].mw.id = "c2"
       /\ stack[i].chain[3].mw.id = "c1"
       /\ stack[i].chain[4].mw.id = "m2"
       /\ stack[i].chain[5].mw.kind = "zod"
       /\ stack[i].chain[6].mw.id = "m1"

\* C32: while the promise a controller method returned is pending, the route
\* handler has neither sent a response nor called next for that request, and
\* every other request that stands at its route handler can be served; the
\* step in which the promise settles completes the request with a response
\* or with a call of next.  A promise that never settles leaves the request
\* in the first case for ever.
C32_PendingPromise ==
  /\ [](\A r \in DOMAIN reqs :
          LET q == reqs[r]
          IN q.st = "awaiting" =>
               /\ q.nexts = <<>>
               /\ \A i \in 1..Len(q.responses) : q.responses[i].by # "handler"
               /\ \A s \in DOMAIN reqs \ {r} :
                    AtLayer(s, {"handler"}) => ENABLED RouteHandlerRuns(s))
  /\ [][\A r \in DOMAIN reqs :
          (reqs[r].st = "awaiting" /\ reqs'[r] # reqs[r]) =>
            /\ reqs'[r].st # "awaiting"
            /\ \/ reqs'[r].nexts # <<>>
               \/ \E i \in 1..Len(reqs'[r].responses) :
                    reqs'[r].responses[i].by \in {"handler", "method"}]_vars

\* One request waits for its method's promise, unanswered, while another has
\* arrived after it and stands at its route handler.
C32_WitnessWaiting ==
  \E r, s \in DOMAIN reqs :
    /\ r < s
    /\ reqs[r].st = "awaiting"
    /\ reqs[r].responses = <<>>
    /\ reqs[r].nexts = <<>>
    /\ AtLayer(s, {"handler"})

\* The controller a layer of the router belongs to ("" for the other layers).
OwnerOf(layer) ==
  IF layer.kind = "route" THEN layer.chain[Len(layer.chain)].instance.cls
  ELSE IF layer.kind = "errmw" THEN layer.controller
  ELSE ""

\* C33: in the application that was built from the controllers list, the
\* layers of a controller stand before the layers of every controller later
\* in the list, a controller's error-handling middleware stands after all of
\* its routes and is there exactly when the class has an error handler, and
\* every route is bound to an instance that has been constructed.
C33_RegistrationOrder ==
  phase = "serving" =>
    \E cs \in program.controllerLists :
      LET place(c) == CHOOSE k \in 1..Len(cs) : cs[k] = c
          owned == {i \in 1..Len(stack) : OwnerOf(stack[i]) # ""}
      IN /\ \A i \in owned : \E k \in 1..Len(cs) : cs[k] = OwnerOf(stack[i])
         /\ \A i, j \in owned :
              i < j =>
                /\ place(OwnerOf(stack[i])) <= place(OwnerOf(stack[j]))
                /\ OwnerOf(stack[i]) = OwnerOf(stack[j]) => stack[i].kind = "route"
         /\ \A k \in 1..Len(cs) :
              Cardinality({i \in owned : /\ stack[i].kind = "errmw"
                                         /\ stack[i].controller = cs[k]}) =
                IF getErrorHandlerMetadata(errorHandlers, cs[k]) # "none"
                  THEN 1 ELSE 0
         /\ \A i \in owned :
              stack[i].kind = "route" =>
                LET instance == stack[i].chain[Len(stack[i].chain)].instance
                IN instance.n >= 1 /\ instance.n <= constructed[instance.cls]

\* The application was built from [B, A], both with an error handler: the
\* route of B, the handler of B, the route of A, the handler of A.
C33_WitnessTwoControllers ==
  /\ phase = "serving"
  /\ program.controllerLists = {<<"B", "A">>}
  /\ \E i \in 1..Len(stack) :
       /\ i + 3 <= Len(stack)
       /\ stack[i].kind = "route" /\ OwnerOf(stack[i]) = "B"
       /\ stack[i + 1].kind = "errmw" /\ stack[i + 1].controller = "B"
       /\ stack[i + 2].kind = "route" /\ OwnerOf(stack[i + 2]) = "A"
       /\ stack[i + 3].kind = "errmw" /\ stack[i + 3].controller = "A"

\* C34: the extraction function of every parameter record returns a value,
\* without throwing, on every request state.
C34_ExtractionNeverThrows ==
  util.fn = "createParameterFactory" => util.result # Thrown

\* The method decorators applied since the last clear() to method m of class
\* c, in order, as <<class, method, verb, path>>.
MethodsDeclared(c, m) ==
  LET Names(i) == i.op = "Method" /\ i.target = c /\ i.method = m
      found == SelectSeq(SubSeq(program.decl, LastClear + 1, declPc), Names)
  IN [k \in 1..Len(found) |->
        <<found[k].target, found[k].method, found[k].httpMethod, found[k].path>>]

RECURSIVE MethodsExpected(_, _)
MethodsExpected(c, names) ==
  IF names = <<>> THEN <<>>
  ELSE MethodsDeclared(c, Head(names)) \o MethodsExpected(c, Tail(names))

\* C35: while the declarations run, the method records returned for a class
\* are those added for that class and each own method of its prototype, in
\* the prototype's order, and no others; a route is only ever bound to an own
\* method of the class that was registered.
C35_OwnMethodsOnly ==
  /\ phase = "declare" =>
       \A c \in Classes :
         LET refs == getControllerMethodMetadata(storage, c)
             returned == [k \in 1..Len(refs) |->
                            LET record == storage.methods[refs[k][1]][refs[k][2]]
                            IN <<record.target, record.method, record.httpMethod,
                                 record.path>>]
         IN returned = MethodsExpected(c, OwnMethodNames(c))
  /\ \A i \in 1..Len(stack) :
       stack[i].kind = "route" =>
         LET handler == stack[i].chain[Len(stack[i].chain)]
         IN \E k \in 1..Len(OwnMethodNames(handler.instance.cls)) :
              OwnMethodNames(handler.instance.cls)[k] = handler.method

\* C36: the argument at each position that has parameter records is what the
\* record added last for that position extracts.
C36_LastRecordWins ==
  util.fn = "createRouteHandler" =>
    LET parameters == util.args[1]
        q == util.args[2]
        at(i) == {j \in 1..Len(parameters) : parameters[j].index = i}
        last(i) == CHOOSE j \in at(i) : \A k \in at(i) : k <= j
    IN \A i \in 0..1 :
         at(i) # {} =>
           /\ Len(util.result) >= i + 1
           /\ util.result[i + 1] = createParameterFactory(parameters[last(i)], q, 1)

\* @Param("id") was recorded for position 0 and a record of unknown type was
\* added for the same position afterwards: the argument is undefined.
C36_WitnessOverridden ==
  /\ util.fn = "createRouteHandler"
  /\ Len(util.args[1]) = 2
  /\ util.args[1][1].index = 0 /\ util.args[1][1].type = "param"
  /\ util.args[1][2].index = 0 /\ util.args[1][2].type = "999"
  /\ util.result = <<Undefined>>

\* C37: a response of the global error handler carries the error's message
\* and status (500 for an error that is not an HttpError) in its body, and
\* its HTTP status is the error's status, whatever the error's data holds.
C37_ErrorResponseKeepsStatus ==
  \A r \in DOMAIN reqs :
    LET q == reqs[r]
    IN \A i \in 1..Len(q.responses) :
         q.responses[i].by = "errorHandler" =>
           /\ q.responses[i].body.f["message"] = ErrorResponse(q.err)["message"]
           /\ q.responses[i].body.f["status"] = ErrorResponse(q.err)["status"]
           /\ q.responses[i].status = ErrorResponse(q.err)["status"]

\* C38: the middleware lookups are exact. getMethodMiddleware(c, m) returns
\* only records that were added for the class c and the method m, and
\* getControllerMiddleware(c) only records added for the class c without a
\* method, whatever characters the names of classes and methods contain.
C38_LookupsExact ==
  \A c \in Classes :
    /\ \A m \in MethodNames \cup {"item_plain"} :
         LET found == getMethodMiddleware(storage, c, m)
         IN \A i \in 1..Len(found) :
              found[i].target = c /\ found[i].method = m
    /\ LET found == getControllerMiddleware(storage, c)
       IN \A i \in 1..Len(found) :
            found[i].target = c /\ ~Truthy(found[i].method)

\* C39: when the error handler of a controller is called for an error of its
\* own controller and throws instead of answering, the error it threw is
\* passed to next: the request goes on, carrying the new error, to the next
\* error-handling layer after this one (Express' final handler when there is
\* no other).
C39_HandlerThrowForwarded ==
  [][\A r \in DOMAIN reqs :
       LET q == reqs[r]
           after == reqs'[r]
       IN (/\ AtLayer(r, {"errmw"})
           /\ Len(after.handledBy) > Len(q.handledBy)
           /\ after.responses = q.responses)
          => /\ after.st = "active"
             /\ after.err \in {HandlerThrew, HeadersSentError}
             /\ after.pos > q.pos
             /\ Current(stack, after).kind \in {"errmw", "errorHandler", "final"}]_vars

\* A custom handler threw, and the global error handler answered with the
\* error it threw.
C39_WitnessAnsweredDownstream ==
  \E r \in DOMAIN reqs :
    /\ reqs[r].handledBy # <<>>
    /\ reqs[r].err = HandlerThrew
    /\ \E i \in 1..Len(reqs[r].responses) :
         /\ reqs[r].responses[i].by = "errorHandler"
         /\ reqs[r].responses[i].body.f["message"] = Str(HandlerThrew.message)

====
